---- MODULE Spec2Model ----
(***************************************************************************)
(* Agent process orchestration and tool-approval gateway.                  *)
(*                                                                         *)
(*   SpecRules  - the permission rule engine (permission_rules_service.py) *)
(*   SpecBroker - the approval broker (approval_controller.py) with the    *)
(*                agent-side RPC client (approval_gate.py)                 *)
(*   SpecRun    - the process supervisor, its stream merger and recovery   *)
(*                controller (claude_code_provider.py); FairSpecRun adds   *)
(*                the scheduling of the generator and of cancel            *)
(*                                                                         *)
(* Text is modelled as a sequence of one-character strings, so that        *)
(* splitting, globbing and prefix tests are computed and not assumed.      *)
(***************************************************************************)
EXTENDS Integers, Sequences, FiniteSets, TLC

VARIABLES
    \* ---- permission rule engine
    _rules,          \* PermissionRulesService._rules: the ordered rule list
    nextRuleId,      \* stands for uuid4(): the next unused rule id
    call,            \* the tool call (tool, input) the engine is asked about
    verdict,         \* what check() returned for the call under the current rules
    \* ---- approval broker (approval_controller.py)
    _pending,        \* request_id -> {chat_id, tool, input} or a question
    _decisions,      \* request_id -> the stored decision (or free-text answer)
    _events,         \* request_id -> is the threading.Event set
    waiters,         \* request ids a wait handler thread is blocked on
    fe,              \* the frontend's handler thread: decide or answer in progress
    feCalls,         \* decide/answer calls made so far
    feResp,          \* the last call of the frontend or of a stray client, and its HTTP status
    waitLog,         \* request_id -> the decision the wait handler responded with
    \* ---- approval RPC client (approval_gate.py)
    gate,            \* the tools/call being handled and where it stands
    gateCalls,       \* tools/call requests read so far (stands for uuid4())
    executed,        \* the executor runs, in order
    replies,         \* the JSON-RPC replies written, in order
    \* ---- provider registries the broker reaches (claude_code_provider.py)
    _inject_queues,  \* chat ids that have a live merge queue
    _code_folders,   \* chat_id -> code folder
    merged_q,        \* the live merge queue of the run
    \* ---- process supervisor (claude_code_provider.py)
    _session_map,    \* chat_id -> session id of the agent CLI
    sessions_file,   \* what the sessions file on disk holds
    _stdin_map,      \* chat ids with a registered stdin
    _process_map,    \* chat ids with a registered process
    _cancelled_prompts, \* chat_id -> prompt of the run cancelled last
    run,             \* the generator of run_stream: its locals and where it stands
    proc,            \* the agent subprocess and its pipes
    out,             \* the events the current run_stream call has yielded
    enq,             \* every item put on the live merge queue, in order
    canc,            \* the thread inside cancel()
    cancel_true,     \* the run_stream calls for which cancel() returned True
    runs,            \* run_stream calls made so far
    used,            \* how much of each bound is used up
    \* ---- services (agent_session_service.py, chat_repository.py)
    stream,          \* one stream_run generator: the provider it reads and what it emitted
    repo,            \* the chats directory and the outcome of the last repository call
    overlap,         \* two run_stream calls for one chat_id and the provider's three maps
    fs,              \* the file the gate's edit executors work on, and their last call
    file_monitor     \* FileMonitorService's two flags, the stream_run calls, the restarts

rulesVars == <<_rules, nextRuleId, call, verdict>>

brokerVars == <<_pending, _decisions, _events, waiters, fe, feCalls, feResp, waitLog>>

gateVars == <<gate, gateCalls, executed, replies>>

provVars == <<_inject_queues, _code_folders, merged_q>>

runVars == <<_session_map, sessions_file, _stdin_map, _process_map, _cancelled_prompts,
             run, proc, out, enq, canc, cancel_true, runs, used>>

svcVars == <<stream, repo, overlap, fs, file_monitor>>

vars == <<rulesVars, brokerVars, gateVars, provVars, runVars, svcVars>>

(***************************************************************************)
(* Bounds                                                                  *)
(***************************************************************************)
MaxRules == 2        \* rules that add_rule may append in one behaviour
MaxCmdLen == 2       \* length of the enumerated command strings
MaxGateCalls == 1    \* tools/call requests the RPC client reads in one behaviour
MaxFeCalls == 2      \* decide/answer calls the frontend makes in one behaviour
MaxRuns == 1         \* run_stream calls in one behaviour
MaxStdout == 1       \* stdout lines the readers enqueue in one behaviour
MaxStderr == 1       \* stderr lines the readers enqueue in one behaviour
MaxInject == 1       \* inject_event calls in one behaviour
MaxCancels == 1      \* cancel calls in one behaviour
MaxServeCalls == 2   \* tools/call requests in one behaviour of SpecServe
MaxLines == 2        \* lines the provider yields to stream_run
MaxToolResults == 1  \* send_tool_result calls in one behaviour
MaxResumeRuns == 3   \* run_stream calls in one behaviour of SpecResume
MaxResumeCancels == 2 \* cancel calls in one behaviour of SpecResume
MaxRepoCalls == 3     \* append_message and delete_chat calls in one behaviour of SpecRepo
MaxOverlapCalls == 2  \* cancel, inject_event and send_tool_result calls in one behaviour of SpecOverlap
MaxEdits == 3         \* edits in one MultiEdit call
MaxEditCalls == 2     \* Edit and MultiEdit calls in one behaviour of SpecEdit
MaxTrustRequests == 2
MaxMonitorRuns == 2

(***************************************************************************)
(* Text helpers                                                            *)
(***************************************************************************)
SP == " "
SQ == "'"
SL == "/"

RECURSIVE Concat(_)
Concat(ss) == IF ss = <<>> THEN <<>> ELSE Head(ss) \o Concat(Tail(ss))

\* str.startswith
StartsWith(s, p) == Len(p) <= Len(s) /\ SubSeq(s, 1, Len(p)) = p

\* str.endswith
EndsWith(s, p) == Len(p) <= Len(s) /\ SubSeq(s, Len(s) - Len(p) + 1, Len(s)) = p

\* str.strip() for the blank the alphabet has
RECURSIVE LStrip(_)
LStrip(s) == IF s # <<>> /\ Head(s) = SP THEN LStrip(Tail(s)) ELSE s

RECURSIVE RStrip(_)
RStrip(s) == IF s # <<>> /\ s[Len(s)] = SP THEN RStrip(SubSeq(s, 1, Len(s) - 1)) ELSE s

Strip(s) == RStrip(LStrip(s))

\* os.path.basename: what follows the last "/"
RECURSIVE Basename(_)
Basename(s) ==
    IF \E i \in 1..Len(s) : s[i] = SL
    THEN Basename(SubSeq(s, (CHOOSE i \in 1..Len(s) : s[i] = SL) + 1, Len(s)))
    ELSE s

\* shlex.split (posix mode) restricted to blanks and single quotes: the scan
\* keeps the token being built, whether a token is open and whether a quote is
\* open; an unclosed quote is shlex's ValueError.
RECURSIVE ShlexScan(_, _, _, _, _)
ShlexScan(s, tok, inTok, inQuote, parts) ==
    IF s = <<>>
    THEN IF inQuote THEN [ok |-> FALSE, parts |-> <<>>]
         ELSE [ok |-> TRUE, parts |-> IF inTok THEN Append(parts, tok) ELSE parts]
    ELSE LET c == Head(s)
             r == Tail(s)
         IN  IF inQuote
             THEN IF c = SQ THEN ShlexScan(r, tok, TRUE, FALSE, parts)
                  ELSE ShlexScan(r, Append(tok, c), TRUE, TRUE, parts)
             ELSE IF c = SP
                  THEN ShlexScan(r, <<>>, FALSE, FALSE,
                                 IF inTok THEN Append(parts, tok) ELSE parts)
                  ELSE IF c = SQ THEN ShlexScan(r, tok, TRUE, TRUE, parts)
                  ELSE ShlexScan(r, Append(tok, c), TRUE, FALSE, parts)

ShlexSplit(s) == ShlexScan(s, <<>>, FALSE, FALSE, <<>>)

\* fnmatch.fnmatch for patterns of literals, "?" and "*" ("*" also spans "/")
RECURSIVE FnMatch(_, _)
FnMatch(s, p) ==
    IF p = <<>> THEN s = <<>>
    ELSE IF Head(p) = "*"
         THEN FnMatch(s, Tail(p)) \/ (s # <<>> /\ FnMatch(Tail(s), p))
         ELSE /\ s # <<>>
              /\ (Head(p) = "?" \/ Head(p) = Head(s))
              /\ FnMatch(Tail(s), Tail(p))

(***************************************************************************)
(* Words of the default rule set                                           *)
(***************************************************************************)
W_md == <<"*", "*", "/", "*", ".", "m", "d">>
W_grep == <<"g", "r", "e", "p">>
W_git == <<"g", "i", "t">>
W_ls == <<"l", "s">>
W_find == <<"f", "i", "n", "d">>
W_cat == <<"c", "a", "t">>
W_wc == <<"w", "c">>
W_head == <<"h", "e", "a", "d">>
W_tail == <<"t", "a", "i", "l">>
W_echo == <<"e", "c", "h", "o">>
W_pwd == <<"p", "w", "d">>
W_python == <<"p", "y", "t", "h", "o", "n">>
W_sort == <<"s", "o", "r", "t">>
W_uniq == <<"u", "n", "i", "q">>
W_diff == <<"d", "i", "f", "f">>
W_rm == <<"r", "m">>
W_rmdir == <<"r", "m", "d", "i", "r">>
W_sudo == <<"s", "u", "d", "o">>
W_su == <<"s", "u">>
W_curl == <<"c", "u", "r", "l">>
W_wget == <<"w", "g", "e", "t">>
W_pip == <<"p", "i", "p">>
W_npm == <<"n", "p", "m">>
W_brew == <<"b", "r", "e", "w">>
W_kill == <<"k", "i", "l", "l">>
W_killall == <<"k", "i", "l", "l", "a", "l", "l">>
W_pkill == <<"p", "k", "i", "l", "l">>
W_dd == <<"d", "d">>
W_mkfs == <<"m", "k", "f", "s">>
W_chmod == <<"c", "h", "m", "o", "d">>
W_chown == <<"c", "h", "o", "w", "n">>
W_shutdown == <<"s", "h", "u", "t", "d", "o", "w", "n">>

DANGEROUS ==
    {W_rm, W_rmdir, W_sudo, W_su, W_curl, W_wget, W_pip, W_npm, W_brew,
     W_kill, W_killall, W_pkill, W_dd, W_mkfs, W_chmod, W_chown, W_shutdown}

Rule(tool, match_type, pattern, action) ==
    [tool |-> tool, match_type |-> match_type, pattern |-> pattern, action |-> action]

_DEFAULT_RULES ==
    <<Rule("Write", "glob", W_md, "allow"),
      Rule("Edit", "glob", W_md, "allow"),
      Rule("MultiEdit", "glob", W_md, "allow"),
      Rule("Bash", "prefix", W_grep, "allow"),
      Rule("Bash", "prefix", W_git, "allow"),
      Rule("Bash", "prefix", W_ls, "allow"),
      Rule("Bash", "prefix", W_find, "allow"),
      Rule("Bash", "prefix", W_cat, "allow"),
      Rule("Bash", "prefix", W_wc, "allow"),
      Rule("Bash", "prefix", W_head, "allow"),
      Rule("Bash", "prefix", W_tail, "allow"),
      Rule("Bash", "prefix", W_echo, "allow"),
      Rule("Bash", "prefix", W_pwd, "allow"),
      Rule("Bash", "prefix", W_python, "allow"),
      Rule("Bash", "prefix", W_sort, "allow"),
      Rule("Bash", "prefix", W_uniq, "allow"),
      Rule("Bash", "prefix", W_diff, "allow"),
      Rule("Bash", "prefix", W_rm, "deny"),
      Rule("Bash", "prefix", W_rmdir, "deny"),
      Rule("Bash", "prefix", W_sudo, "deny"),
      Rule("Bash", "prefix", W_su, "deny"),
      Rule("Bash", "prefix", W_curl, "deny"),
      Rule("Bash", "prefix", W_wget, "deny"),
      Rule("Bash", "prefix", W_pip, "deny"),
      Rule("Bash", "prefix", W_npm, "deny"),
      Rule("Bash", "prefix", W_brew, "deny"),
      Rule("Bash", "prefix", W_kill, "deny"),
      Rule("Bash", "prefix", W_killall, "deny"),
      Rule("Bash", "prefix", W_dd, "deny"),
      Rule("Bash", "prefix", W_chmod, "deny"),
      Rule("Bash", "prefix", W_chown, "deny")>>

(***************************************************************************)
(* Permission rule engine                                                  *)
(***************************************************************************)
NoSuggestion == [some |-> FALSE, base |-> <<>>]

\* suggest_bash_pattern: the base name of the first shell word, or None for an
\* empty or unparsable command and for a dangerous base name.
suggest_bash_pattern(command) ==
    LET c == Strip(command)
        sp == ShlexSplit(c)
    IN  IF c = <<>> THEN NoSuggestion
        ELSE IF ~sp.ok THEN NoSuggestion
        ELSE IF sp.parts = <<>> THEN NoSuggestion
        ELSE IF Basename(sp.parts[1]) \in DANGEROUS THEN NoSuggestion
        ELSE [some |-> TRUE, base |-> Basename(sp.parts[1])]

\* a prefix match that takes the suggestion alone, without the second parse
PrefixBaseOfSuggestion(command) ==
    LET sug == suggest_bash_pattern(command)
    IN  IF sug.some THEN sug.base ELSE <<>>

\* the base name _matches compares a prefix rule's pattern with
PrefixBase(command) ==
    LET sug == suggest_bash_pattern(command)
        sp == ShlexSplit(Strip(command))
    IN  IF sug.some THEN sug.base
        ELSE IF ~sp.ok THEN <<>>
        ELSE IF sp.parts = <<>> THEN <<>>
        ELSE Basename(sp.parts[1])

\* tool_input.get("file_path") or tool_input.get("path", "")
GlobPath(tool_input) ==
    IF tool_input.file_path # <<>> THEN tool_input.file_path ELSE tool_input.path

_matches(rule, tool, tool_input) ==
    IF rule.tool # tool THEN FALSE
    ELSE IF rule.match_type = "glob"
         THEN LET file_path == GlobPath(tool_input)
              IN  IF file_path = <<>> THEN FALSE
                  ELSE IF FnMatch(file_path, rule.pattern) THEN TRUE
                  ELSE IF ~StartsWith(file_path, <<SL>>)
                       THEN FnMatch(<<SL>> \o file_path, rule.pattern)
                       ELSE FALSE
         ELSE IF rule.match_type = "prefix"
              THEN PrefixBase(tool_input.command) = rule.pattern
              ELSE FALSE

\* the inner loop of check for one action: does a rule of that action match
RECURSIVE ScanRules(_, _, _, _)
ScanRules(rs, action, tool, tool_input) ==
    IF rs = <<>> THEN FALSE
    ELSE IF Head(rs).action = action /\ _matches(Head(rs), tool, tool_input) THEN TRUE
    ELSE ScanRules(Tail(rs), action, tool, tool_input)

\* a wrong check: the first matching rule in insertion order decides
RECURSIVE CheckInsertionOrder(_, _, _)
CheckInsertionOrder(rs, tool, tool_input) ==
    IF rs = <<>> THEN "ask"
    ELSE IF _matches(Head(rs), tool, tool_input) THEN Head(rs).action
    ELSE CheckInsertionOrder(Tail(rs), tool, tool_input)

\* a check that refuses what no rule matches
CheckDenyByDefault(rs, tool, tool_input) ==
    IF ScanRules(rs, "deny", tool, tool_input) THEN "deny"
    ELSE IF ScanRules(rs, "allow", tool, tool_input) THEN "allow"
    ELSE "deny"

\* PermissionRulesService.check: the actions in the order ("deny", "allow"),
\* every rule of the list for each
check(rs, tool, tool_input) ==
    IF ScanRules(rs, "deny", tool, tool_input) THEN "deny"
    ELSE IF ScanRules(rs, "allow", tool, tool_input) THEN "allow"
    ELSE "ask"

(***************************************************************************)
(* Inputs of the rule engine                                               *)
(***************************************************************************)
ToolInput(command, file_path, path) ==
    [command |-> command, file_path |-> file_path, path |-> path]

RECURSIVE SeqsUpTo(_, _)
SeqsUpTo(S, n) ==
    IF n = 0 THEN {<<>>}
    ELSE LET shorter == SeqsUpTo(S, n - 1)
         IN  shorter \cup {Append(s, c) : s \in shorter, c \in S}

CmdAlphabet == {"r", "m", SP, SQ}

W_rm_rf == <<"r", "m", SP, "-", "r", "f", SP, SL>>
W_git_status == <<"g", "i", "t", SP, "s", "t", "a", "t", "u", "s">>
W_unknownbinary == <<"u", "n", "k", "n", "o", "w", "n", "b", "i", "n", "a", "r", "y">>
W_bin_rm == <<SL, "b", "i", "n", SL, "r", "m", SP, "x">>
W_readme == <<"R", ".", "m", "d">>
W_src_readme == <<SL, "w", SL, "R", ".", "m", "d">>
W_src_py == <<SL, "w", SL, "a", ".", "p", "y">>

Commands ==
    SeqsUpTo(CmdAlphabet, MaxCmdLen)
        \cup {W_rm_rf, W_git_status, W_unknownbinary, W_bin_rm, W_git, W_sudo}

Paths == {W_readme, W_src_readme, W_src_py}

Calls ==
    [tool : {"Bash"}, input : {ToolInput(c, <<>>, <<>>) : c \in Commands}]
        \cup [tool : {"Write", "Edit"},
              input : {ToolInput(<<>>, p, <<>>) : p \in Paths}
                          \cup {ToolInput(<<>>, <<>>, p) : p \in Paths}]

\* the rules add_rule is asked to add in the model
RuleChoices ==
    {Rule("Bash", "prefix", W_rm, "deny"),
     Rule("Bash", "prefix", W_rm, "allow"),
     Rule("Write", "glob", W_md, "allow"),
     Rule("Write", "glob", <<SL, "w", SL, "*">>, "deny")}

\* the ids remove_rule is asked to remove in the model: every added rule, and
\* the default deny rule for rm
RemovableIds == {18} \cup ((Len(_DEFAULT_RULES) + 1)..(nextRuleId - 1))

WithIds(rs) == [i \in 1..Len(rs) |-> [id |-> i] @@ rs[i]]

NoVerdict == [asked |-> FALSE, result |-> "none"]

\* add_rule: validate, append with a fresh id, save
add_rule ==
    \E r \in RuleChoices :
        /\ nextRuleId - 1 < Len(_DEFAULT_RULES) + MaxRules
        /\ r.match_type \in {"glob", "prefix"}
        /\ r.action \in {"allow", "deny"}
        /\ _rules' = Append(_rules, [id |-> nextRuleId] @@ r)
        /\ nextRuleId' = nextRuleId + 1
        /\ verdict' = NoVerdict
        /\ UNCHANGED <<call, brokerVars, svcVars, gateVars, provVars, runVars>>

\* remove_rule: drop the rule with that id
remove_rule ==
    \E rule_id \in RemovableIds :
        /\ \E i \in 1..Len(_rules) : _rules[i].id = rule_id
        /\ _rules' = SelectSeq(_rules, LAMBDA r : r.id # rule_id)
        /\ verdict' = NoVerdict
        /\ UNCHANGED <<nextRuleId, call, brokerVars, svcVars, gateVars, provVars, runVars>>

\* one call of check(tool, tool_input)
Check ==
    /\ verdict' = [asked |-> TRUE, result |-> check(_rules, call.tool, call.input)]
    /\ UNCHANGED <<_rules, nextRuleId, call, brokerVars, svcVars, gateVars, provVars, runVars>>

(***************************************************************************)
(* Provider registries the broker reaches                                  *)
(***************************************************************************)
CHAT_ID == "c1"      \* APPROVAL_GATE_CHAT_ID of the RPC client

Put(f, k, v) == [x \in (DOMAIN f) \cup {k} |-> IF x = k THEN v ELSE f[x]]

Pop(f, k) == [x \in (DOMAIN f) \ {k} |-> f[x]]

Get(f, k, default) == IF k \in DOMAIN f THEN f[k] ELSE default

\* json.dumps of an event: the line carries the event, and is never empty
JsonDumps(event) == [text |-> "json", obj |-> event]

\* get_code_folder: the folder of the chat, or the empty string
get_code_folder(chat_id) == Get(_code_folders, chat_id, <<>>)

\* inject_event: what the queue of the chat is after the call
InjectQueue(chat_id, event) ==
    IF chat_id \in _inject_queues
    THEN Append(merged_q, <<"inject", JsonDumps(event)>>)
    ELSE merged_q

\* inject_event: its return value
InjectAccepted(chat_id) == chat_id \in _inject_queues

(***************************************************************************)
(* Approval broker                                                         *)
(***************************************************************************)
\* a rule a user added through the rules API: never write Python files
W_py == <<"*", "*", "/", "*", ".", "p", "y">>

UserDenyRule == Rule("Write", "glob", W_py, "deny")

W_w == <<SL, "w">>
W_x_py == <<SL, "x", SL, "a", ".", "p", "y">>

MissingRid == <<>>
UnknownRid == <<"r", 0>>
RidOf(n) == <<"r", n>>

FileTools == {"Write", "Edit", "MultiEdit"}

\* the rule verdict resolves the request at once
RuleAutoAllow(tool, inp) == check(_rules, tool, inp) = "allow"

\* a broker without folder-scoped trust
FolderTrustOff(chat_id, tool, inp) == FALSE

\* folder-scoped trust: a file tool whose file_path starts with the folder
FolderAutoAllow(chat_id, tool, inp) ==
    /\ tool \in FileTools
    /\ get_code_folder(chat_id) # <<>>
    /\ inp.file_path # <<>>
    /\ StartsWith(inp.file_path, get_code_folder(chat_id) \o <<SL>>)

\* inp.get("file_path", inp.get("path", ""))
CardPath(inp) == IF inp.file_path # <<>> THEN inp.file_path ELSE inp.path

always_allow_pattern(tool, inp) ==
    IF tool = "Bash" THEN suggest_bash_pattern(inp.command)
    ELSE IF tool \in FileTools /\ EndsWith(CardPath(inp), <<".", "m", "d">>)
         THEN [some |-> TRUE, base |-> W_md]
         ELSE NoSuggestion

PermissionRequestEvent(request_id, tool, inp) ==
    [type |-> "permission_request", request_id |-> request_id, tool |-> tool,
     path |-> CardPath(inp), description |-> inp.command, input |-> inp,
     always_allow_pattern |-> always_allow_pattern(tool, inp)]

\* a broker that turns a deny verdict into a decision
RequestAutoDeny(request_id, chat_id, tool, inp) ==
    /\ _events' = Put(_events, request_id, TRUE)
    /\ _pending' = Put(_pending, request_id,
                       [chat_id |-> chat_id, type |-> "tool", tool |-> tool, input |-> inp])
    /\ _decisions' = Put(_decisions, request_id,
                         IF check(_rules, tool, inp) = "deny" THEN "deny" ELSE "allow")
    /\ UNCHANGED merged_q

\* api_approval_request, once the request_id was found present
api_approval_request(request_id, chat_id, tool, inp) ==
    /\ _events' = Put(_events, request_id,
                      RuleAutoAllow(tool, inp) \/ FolderAutoAllow(chat_id, tool, inp))
    /\ _pending' = Put(_pending, request_id,
                       [chat_id |-> chat_id, type |-> "tool", tool |-> tool, input |-> inp])
    /\ IF RuleAutoAllow(tool, inp) \/ FolderAutoAllow(chat_id, tool, inp)
       THEN /\ _decisions' = Put(_decisions, request_id, "allow")
            /\ UNCHANGED merged_q
       ELSE /\ UNCHANGED _decisions
            /\ merged_q' = InjectQueue(chat_id,
                               PermissionRequestEvent(request_id, tool, inp))

\* a broker that resolves a question by itself
QuestionAutoAllowed(request_id, chat_id, questions) ==
    /\ _events' = Put(_events, request_id, TRUE)
    /\ _pending' = Put(_pending, request_id,
                       [chat_id |-> chat_id, type |-> "question", questions |-> questions])
    /\ _decisions' = Put(_decisions, request_id, "allow")
    /\ UNCHANGED merged_q

\* api_approval_question, once the request_id was found present
api_approval_question(request_id, chat_id, questions) ==
    /\ _events' = Put(_events, request_id, FALSE)
    /\ _pending' = Put(_pending, request_id,
                       [chat_id |-> chat_id, type |-> "question", questions |-> questions])
    /\ merged_q' = InjectQueue(chat_id,
                       [type |-> "user_question", request_id |-> request_id,
                        questions |-> questions])
    /\ UNCHANGED _decisions

\* api_approval_wait, first half: look the event up; unknown is a 404
WaitKnown(request_id) == request_id \in DOMAIN _events

\* a wait handler that answers "deny" whatever is stored
WaitDecisionDefault(request_id) == "deny"

\* api_approval_wait, second half: the event fired or the 300 s went by; the
\* decision is popped with "deny" as the default, then the event and the
\* pending entry
WaitDecision(request_id) == Get(_decisions, request_id, "deny")

api_approval_wait_return(request_id) ==
    /\ waitLog' = Put(waitLog, request_id, WaitDecision(request_id))
    /\ _decisions' = Pop(_decisions, request_id)
    /\ _events' = Pop(_events, request_id)
    /\ _pending' = Pop(_pending, request_id)
    /\ waiters' = waiters \ {request_id}

\* the wait handler of a waiter whose HTTP client is gone (it gave up, or the
\* connection broke): it still wakes up and pops
WaitReturnOrphan ==
    \E rid \in waiters :
        /\ ~(gate.pc = "waiting" /\ gate.rid = rid)
        /\ api_approval_wait_return(rid)
        /\ UNCHANGED <<fe, feCalls, feResp, gateVars, rulesVars, svcVars,
                       _inject_queues, _code_folders, merged_q, runVars>>

(***************************************************************************)
(* Frontend: decide and answer                                             *)
(***************************************************************************)
FeIdle == [pc |-> "idle", rid |-> MissingRid, value |-> "none"]

FeNoResp == [op |-> "none", rid |-> MissingRid, value |-> "none", status |-> 0]

FeCall(op, rid, value, status) == [op |-> op, rid |-> rid, value |-> value, status |-> status]

DecideValues == {"allow", "deny", "maybe"}
AnswerValues == {"allow", "yes"}
FeRids == {MissingRid, UnknownRid} \cup {RidOf(n) : n \in 1..MaxGateCalls}

\* a decide that stores without looking the event up
DecideStatusNoLookup(request_id, decision) ==
    IF request_id = MissingRid THEN 400
    ELSE IF decision \notin {"allow", "deny"} THEN 400
    ELSE 200

\* api_approval_decide up to the event lookup: 400 for a missing id or a value
\* other than allow/deny, 404 for an unknown id
DecideStatus(request_id, decision) ==
    IF request_id = MissingRid THEN 400
    ELSE IF decision \notin {"allow", "deny"} THEN 400
    ELSE IF request_id \notin DOMAIN _events THEN 404
    ELSE 200

DecideBegin ==
    \E rid \in FeRids, d \in DecideValues :
        /\ fe.pc = "idle"
        /\ feCalls < MaxFeCalls
        /\ feCalls' = feCalls + 1
        /\ IF DecideStatus(rid, d) = 200
           THEN /\ fe' = [pc |-> "decide", rid |-> rid, value |-> d]
                /\ feResp' = FeCall("decide", rid, d, 0)
           ELSE /\ fe' = FeIdle
                /\ feResp' = FeCall("decide", rid, d, DecideStatus(rid, d))
        /\ UNCHANGED <<_pending, _decisions, _events, waiters, waitLog,
                       gateVars, rulesVars, svcVars, provVars, runVars>>

\* api_approval_decide from the store on: store, set the event, inject the
\* permission_decision notice into the chat of the pending entry
DecideChat(request_id) ==
    IF request_id \in DOMAIN _pending THEN _pending[request_id].chat_id ELSE ""

DecideCommit ==
    /\ fe.pc = "decide"
    /\ _decisions' = Put(_decisions, fe.rid, fe.value)
    /\ _events' = IF fe.rid \in DOMAIN _events THEN Put(_events, fe.rid, TRUE) ELSE _events
    /\ merged_q' = IF DecideChat(fe.rid) # ""
                   THEN InjectQueue(DecideChat(fe.rid),
                            [type |-> "permission_decision", request_id |-> fe.rid,
                             approved |-> (fe.value = "allow")])
                   ELSE merged_q
    /\ fe' = FeIdle
    /\ feResp' = [feResp EXCEPT !.status = 200]
    /\ UNCHANGED <<_pending, waiters, feCalls, waitLog, gateVars, rulesVars, svcVars,
                   _inject_queues, _code_folders, runVars>>

\* api_approval_answer up to the event lookup
AnswerStatus(request_id) ==
    IF request_id = MissingRid THEN 400
    ELSE IF request_id \notin DOMAIN _events THEN 404
    ELSE 200

AnswerBegin ==
    \E rid \in FeRids, a \in AnswerValues :
        /\ fe.pc = "idle"
        /\ feCalls < MaxFeCalls
        /\ feCalls' = feCalls + 1
        /\ IF AnswerStatus(rid) = 200
           THEN /\ fe' = [pc |-> "answer", rid |-> rid, value |-> a]
                /\ feResp' = FeCall("answer", rid, a, 0)
           ELSE /\ fe' = FeIdle
                /\ feResp' = FeCall("answer", rid, a, AnswerStatus(rid))
        /\ UNCHANGED <<_pending, _decisions, _events, waiters, waitLog,
                       gateVars, rulesVars, svcVars, provVars, runVars>>

\* api_approval_answer from the store on: store the text, set the event
AnswerCommit ==
    /\ fe.pc = "answer"
    /\ _decisions' = Put(_decisions, fe.rid, fe.value)
    /\ _events' = IF fe.rid \in DOMAIN _events THEN Put(_events, fe.rid, TRUE) ELSE _events
    /\ fe' = FeIdle
    /\ feResp' = [feResp EXCEPT !.status = 200]
    /\ UNCHANGED <<_pending, waiters, feCalls, waitLog, gateVars, rulesVars, svcVars, provVars, runVars>>

\* api_approval_request and api_approval_question up to the request_id test
RequestStatus(request_id) == IF request_id = MissingRid THEN 400 ELSE 200

\* a client posts a request or a question whose body has no request_id
StrayPost(op) ==
    /\ feCalls < MaxFeCalls
    /\ feCalls' = feCalls + 1
    /\ RequestStatus(MissingRid) # 200
    /\ feResp' = FeCall(op, MissingRid, "none", RequestStatus(MissingRid))
    /\ UNCHANGED <<_pending, _decisions, _events, waiters, fe, waitLog,
                   gateVars, rulesVars, svcVars, provVars, runVars>>

\* a client long-polls an id the broker does not hold: the handler answers 404
StrayWait(request_id) ==
    /\ feCalls < MaxFeCalls
    /\ feCalls' = feCalls + 1
    /\ ~WaitKnown(request_id)
    /\ feResp' = FeCall("wait", request_id, "none", 404)
    /\ UNCHANGED <<_pending, _decisions, _events, waiters, fe, waitLog,
                   gateVars, rulesVars, svcVars, provVars, runVars>>

(***************************************************************************)
(* Approval RPC client and tool executors (agent side)                     *)
(***************************************************************************)
_EXECUTORS == {"Write", "Edit", "MultiEdit", "Bash"}

DeniedText == "[Tool use denied by user]"

GateIdle ==
    [pc |-> "idle", kind |-> "none", rid |-> MissingRid, tool |-> "none",
     input |-> ToolInput(<<>>, <<>>, <<>>), decision |-> "none",
     postFailed |-> FALSE, waitFailed |-> FALSE,
     preset |-> "none",      \* the decision found stored, signal fired, when the wait began
     timedOut |-> FALSE]     \* the wait handler woke up by its 300 s bound

\* the tools/call requests the agent sends in the model
GateCalls ==
    {[name |-> "Bash", arguments |-> ToolInput(W_rm_rf, <<>>, <<>>)],
     [name |-> "Bash", arguments |-> ToolInput(W_git_status, <<>>, <<>>)],
     [name |-> "Write", arguments |-> ToolInput(<<>>, W_src_py, <<>>)],
     [name |-> "Edit", arguments |-> ToolInput(<<>>, W_x_py, <<>>)],
     [name |-> "AskUserQuestion", arguments |-> ToolInput(<<>>, <<>>, <<>>)],
     [name |-> "Task", arguments |-> ToolInput(<<>>, <<>>, <<>>)]}

\* a wrong _request_approval: the wait's failure paths default to allow
WaitResultFailOpen(resp, decision) ==
    IF resp = "ok" THEN decision ELSE "allow"

\* _request_approval, the long-poll: the body's decision, "deny" when the body
\* has none, "deny" on any exception
WaitResult(resp, decision) ==
    IF resp = "ok" THEN decision
    ELSE IF resp = "nodecision" THEN "deny"
    ELSE "deny"

\* _request_approval, the registration: any exception denies
PostFailureResult == "deny"

\* _request_user_answer: the body's decision, "{}" when it has none, an error
\* text on any exception
AnswerResult(resp, decision) ==
    IF resp = "ok" THEN decision
    ELSE IF resp = "nodecision" THEN "{}"
    ELSE "error"

\* main, tools/call: read the call; an unknown tool is answered at once
G_Call(max_calls) ==
    \E c \in GateCalls :
        /\ gate.pc = "idle"
        /\ gateCalls < max_calls
        /\ gateCalls' = gateCalls + 1
        /\ IF c.name = "AskUserQuestion"
           THEN /\ gate' = [GateIdle EXCEPT !.pc = "post", !.kind = "question",
                                            !.rid = RidOf(gateCalls + 1),
                                            !.tool = c.name, !.input = c.arguments]
                /\ UNCHANGED replies
           ELSE IF c.name \notin _EXECUTORS
                THEN /\ gate' = GateIdle
                     /\ replies' = Append(replies,
                            [rid |-> MissingRid, kind |-> "rpc_error", tool |-> c.name,
                             decision |-> "none", text |-> "Unknown tool",
                             isError |-> TRUE, postFailed |-> FALSE,
                             waitFailed |-> FALSE])
                ELSE /\ gate' = [GateIdle EXCEPT !.pc = "post", !.kind = "tool",
                                                 !.rid = RidOf(gateCalls + 1),
                                                 !.tool = c.name, !.input = c.arguments]
                     /\ UNCHANGED replies
        /\ UNCHANGED <<executed, brokerVars, rulesVars, svcVars, provVars, runVars>>

BrokerRegister ==
    IF gate.kind = "question"
    THEN api_approval_question(gate.rid, CHAT_ID, <<"q">>)
    ELSE api_approval_request(gate.rid, CHAT_ID, gate.tool, gate.input)

GateFailed(postFailed, waitFailed) ==
    [gate EXCEPT !.pc = "decided",
                 !.decision = IF gate.kind = "question" THEN "error"
                              ELSE PostFailureResult,
                 !.postFailed = postFailed, !.waitFailed = waitFailed]

\* the POST to /api/approval/request (or /question) reaches the broker and the
\* reply comes back
G_PostOk ==
    /\ gate.pc = "post"
    /\ BrokerRegister
    /\ gate' = [gate EXCEPT !.pc = "wait_begin"]
    /\ UNCHANGED <<waiters, fe, feCalls, feResp, waitLog, gateCalls, executed, replies,
                   rulesVars, svcVars, _inject_queues, _code_folders, runVars>>

\* the POST reaches the broker but its reply is lost or late (10 s timeout)
G_PostLost ==
    /\ gate.pc = "post"
    /\ BrokerRegister
    /\ gate' = GateFailed(TRUE, FALSE)
    /\ UNCHANGED <<waiters, fe, feCalls, feResp, waitLog, gateCalls, executed, replies,
                   rulesVars, svcVars, _inject_queues, _code_folders, runVars>>

\* the POST never reaches the broker
G_PostUnreached ==
    /\ gate.pc = "post"
    /\ gate' = GateFailed(TRUE, FALSE)
    /\ UNCHANGED <<brokerVars, gateCalls, executed, replies, rulesVars, svcVars, provVars, runVars>>

\* the GET /api/approval/wait/<id> reaches the broker: the handler thread
\* looks the event up and blocks on it, or answers 404
G_WaitBegin ==
    /\ gate.pc = "wait_begin"
    /\ IF WaitKnown(gate.rid)
       THEN /\ waiters' = waiters \cup {gate.rid}
            /\ gate' = [gate EXCEPT !.pc = "waiting",
                                    !.preset = IF Get(_events, gate.rid, FALSE)
                                               THEN Get(_decisions, gate.rid, "none")
                                               ELSE "none"]
       ELSE /\ UNCHANGED waiters
            /\ gate' = [gate EXCEPT !.pc = "decided",
                                    !.decision = IF gate.kind = "question"
                                                 THEN AnswerResult("failed", "none")
                                                 ELSE WaitResult("failed", "none"),
                                    !.waitFailed = TRUE]
    /\ UNCHANGED <<_pending, _decisions, _events, fe, feCalls, feResp, waitLog,
                   gateCalls, executed, replies, rulesVars, svcVars, provVars, runVars>>

\* the GET never reaches the broker
G_WaitUnreached ==
    /\ gate.pc = "wait_begin"
    /\ gate' = [gate EXCEPT !.pc = "decided",
                            !.decision = IF gate.kind = "question"
                                         THEN AnswerResult("failed", "none")
                                         ELSE WaitResult("failed", "none"),
                            !.waitFailed = TRUE]
    /\ UNCHANGED <<brokerVars, gateCalls, executed, replies, rulesVars, svcVars, provVars, runVars>>

WaitResponses == {"ok", "failed", "nodecision"}

\* the wait handler wakes up (event set, or the 300 s bound), pops and answers;
\* the answer reaches the client whole, not at all, or without a decision
G_WaitReturn ==
    \E timeout \in BOOLEAN, resp \in WaitResponses :
        /\ gate.pc = "waiting"
        /\ gate.rid \in waiters
        /\ timeout = ~Get(_events, gate.rid, FALSE)
        /\ api_approval_wait_return(gate.rid)
        /\ gate' = [gate EXCEPT !.pc = "decided",
                                !.decision = IF gate.kind = "question"
                                             THEN AnswerResult(resp, WaitDecision(gate.rid))
                                             ELSE WaitResult(resp, WaitDecision(gate.rid)),
                                !.waitFailed = (resp # "ok"),
                                !.timedOut = timeout]
        /\ UNCHANGED <<fe, feCalls, feResp, gateCalls, executed, replies, rulesVars, svcVars,
                       provVars, runVars>>

\* the client's connection breaks, or its 310 s pass, while the handler waits
G_WaitAbort ==
    /\ gate.pc = "waiting"
    /\ gate' = [gate EXCEPT !.pc = "decided",
                            !.decision = IF gate.kind = "question"
                                         THEN AnswerResult("failed", "none")
                                         ELSE WaitResult("failed", "none"),
                            !.waitFailed = TRUE]
    /\ UNCHANGED <<brokerVars, gateCalls, executed, replies, rulesVars, svcVars, provVars, runVars>>

Reply(kind, text, isError) ==
    [rid |-> gate.rid, kind |-> kind, tool |-> gate.tool, decision |-> gate.decision,
     text |-> text, isError |-> isError, postFailed |-> gate.postFailed,
     waitFailed |-> gate.waitFailed]

\* a wrong gate: only an explicit deny stops the executor
GateRunsExecutorUnlessDeny(decision) == decision # "deny"

\* main: the executor runs for the decision "allow" and for nothing else
GateRunsExecutor(decision) == decision = "allow"

\* what an executor does: it returns its text, it raises (old_string not
\* found, file missing, TimeoutExpired), or, for Bash, the shell exits non-zero
ExecOutcomes(tool) ==
    IF tool = "Bash" THEN {"ok", "nonzero", "raised"} ELSE {"ok", "raised"}

\* a client that answers an executor's exception with a JSON-RPC error
ExecFailureAsRpcError == [kind |-> "rpc_error", text |-> "Error", isError |-> TRUE]

\* main, except Exception: a result with the error text and isError
ExecFailureReply == [kind |-> "exec_error", text |-> "Error", isError |-> TRUE]

\* the result of the tools/call request after the executor ran
ExecReply(outcome) ==
    CASE outcome = "ok" -> Reply("result", "result", FALSE)
      [] outcome = "nonzero" -> Reply("result", "[exit N]", FALSE)
      [] outcome = "raised" ->
            Reply(ExecFailureReply.kind, ExecFailureReply.text, ExecFailureReply.isError)

\* main, after _request_approval: deny, or run the executor and report
G_Finish ==
    /\ gate.pc = "decided"
    /\ gate.kind = "tool"
    /\ IF ~GateRunsExecutor(gate.decision)
       THEN /\ replies' = Append(replies, Reply("denied", DeniedText, TRUE))
            /\ UNCHANGED executed
       ELSE \E outcome \in ExecOutcomes(gate.tool) :
               /\ executed' = Append(executed, [rid |-> gate.rid, tool |-> gate.tool,
                                                 input |-> gate.input,
                                                 outcome |-> outcome])
               /\ replies' = Append(replies, ExecReply(outcome))
    /\ gate' = GateIdle
    /\ UNCHANGED <<gateCalls, brokerVars, rulesVars, svcVars, provVars, runVars>>

\* main, AskUserQuestion: the answer is returned as a normal result
G_FinishQuestion ==
    /\ gate.pc = "decided"
    /\ gate.kind = "question"
    /\ replies' = Append(replies, Reply("answer", gate.decision, FALSE))
    /\ gate' = GateIdle
    /\ UNCHANGED <<gateCalls, executed, brokerVars, rulesVars, svcVars, provVars, runVars>>

(***************************************************************************)
(* Process supervisor, stream merger and recovery controller               *)
(***************************************************************************)
Chats == {"", CHAT_ID}      \* run_stream's chat_id defaults to ""

NoSession == ""

NoPrompt == <<>>

NoObj == [type |-> "none"]

\* a line of text that is not JSON
TextLine(t) == [text |-> t, obj |-> NoObj]

\* the second member of the eof and cancel items
None == TextLine("None")

\* json.dumps({"type": ..., "message": ...})
Ev(type, message) == JsonDumps([type |-> type, message |-> message])

DebugEvent == Ev("debug", <<"cmd">>)

CancelledEvent == Ev("cancelled", <<"Request cancelled.">>)

SpawnErrorEvent == Ev("error", <<"claude CLI not found or no working directory">>)

StdinErrorEvent == Ev("error", <<"stdin write error">>)

NoStdoutEvent == Ev("error", <<"claude exited with no stdout">>)

StderrEvent(line) == Ev("error", <<"claude: ", line.text>>)

CompactingEvent == Ev("session_compacting", <<"compacting">>)

CompactedEvent == Ev("session_compacted", <<"retrying">>)

ResetEvent == Ev("session_reset", <<"fresh">>)

\* what the subprocess may print on stdout
L_empty == TextLine("")
L_too_long == TextLine("prompt is too long")
L_result_s2 == JsonDumps([type |-> "result", session_id |-> "s2"])
L_result_none == JsonDumps([type |-> "result"])
L_list == [text |-> "json_list", obj |-> NoObj]   \* valid JSON that is no object

StdoutLines == {L_empty, L_too_long, L_result_s2, L_result_none, L_list}

StderrLines == {TextLine("warn"), L_too_long, L_empty}

\* an event the approval controller injects
InjectedEvent == [type |-> "permission_decision", decision |-> "allow"]

PromptOf(n) == <<"p", n>>

\* run_stream: the context block put before the new message
Contextualize(prev_prompt, prompt) == <<"[Context", "cancelled:">> \o prev_prompt \o <<"new:">> \o prompt

\* a or b of Python, on prompts
OrElse(a, b) == IF a # NoPrompt THEN a ELSE b

\* any(p in all_lower for p in _PROMPT_TOO_LONG_PATTERNS)
_PROMPT_TOO_LONG_PATTERNS == {"prompt is too long"}

MatchesTooLong(lines) ==
    \E i \in 1..Len(lines) : lines[i].text \in _PROMPT_TOO_LONG_PATTERNS

\* _save_sessions: the document written to the sessions file
SessionsDocument(session_map, code_folders) ==
    [c \in DOMAIN session_map |->
        IF Get(code_folders, c, <<>>) # <<>>
        THEN [session_id |-> session_map[c], code_folder |-> code_folders[c], legacy |-> FALSE]
        ELSE [session_id |-> session_map[c], code_folder |-> <<>>, legacy |-> TRUE]]

\* _save_sessions: the file afterwards; a failed write is logged and swallowed
_save_sessions(session_map, disk_ok) ==
    IF disk_ok THEN SessionsDocument(session_map, _code_folders) ELSE sessions_file

NoProc == [state |-> "none", stdin_closed |-> TRUE,
           out_open |-> FALSE, err_open |-> FALSE,
           signalled |-> FALSE,     \* proc.terminate() was called on it
           stdin_writes |-> 0]      \* tool results written to its stdin

RunIdle ==
    [pc |-> "idle", chat_id |-> "", prompt |-> NoPrompt, original_prompt |-> NoPrompt,
     is_retry |-> FALSE, claude_session |-> NoSession,
     stdout_lines |-> <<>>, stderr_lines |-> <<>>,
     out_done |-> FALSE, err_done |-> FALSE, got_result |-> FALSE,
     was_cancelled |-> FALSE, exit |-> "none", base |-> 0]

NoUse == [stdout |-> 0, stderr |-> 0, inject |-> 0, cancel |-> 0,
          spawns |-> 0, compactions |-> 0, tool_results |-> 0,
          tool_returned |-> "none"]   \* what the last send_tool_result call gave

\* _run_stream_impl up to its first yield (the debug event)
ImplEntry(prompt, chat_id, is_retry, original_prompt, session_map) ==
    [RunIdle EXCEPT !.pc = "spawn", !.chat_id = chat_id, !.prompt = prompt,
                    !.original_prompt = original_prompt, !.is_retry = is_retry,
                    !.claude_session = Get(session_map, chat_id, NoSession)]

RunOver == run.pc \in {"idle", "done", "raised"}

\* run_stream: pops the cancelled prompt of the chat and enters the run
run_stream(chat_id, max_runs) ==
    /\ RunOver
    /\ runs < max_runs
    /\ LET original_prompt == PromptOf(runs + 1)
           prev_prompt == IF chat_id # "" THEN Get(_cancelled_prompts, chat_id, NoPrompt)
                          ELSE NoPrompt
           prompt == IF prev_prompt # NoPrompt
                     THEN Contextualize(prev_prompt, original_prompt)
                     ELSE original_prompt
       IN  /\ _cancelled_prompts' = IF chat_id # "" THEN Pop(_cancelled_prompts, chat_id)
                                    ELSE _cancelled_prompts
           /\ run' = ImplEntry(prompt, chat_id, FALSE, original_prompt, _session_map)
    /\ runs' = runs + 1
    /\ out' = <<DebugEvent>>
    /\ used' = [used EXCEPT !.spawns = 0, !.compactions = 0]
    /\ UNCHANGED <<_session_map, sessions_file, _stdin_map, _process_map, proc, enq,
                   canc, cancel_true, provVars, rulesVars, svcVars, brokerVars, gateVars>>

SpawnOutcomes == {"ok", "FileNotFoundError", "OSError", "stdin_write"}

\* subprocess.Popen, the write of the prompt, and the registration
Spawn(outcome) ==
    /\ run.pc = "spawn"
    /\ used' = [used EXCEPT !.spawns = @ + 1]
    /\ CASE outcome = "ok" ->
              /\ proc' = [NoProc EXCEPT !.state = "running", !.stdin_closed = FALSE,
                                         !.out_open = TRUE, !.err_open = TRUE]
              /\ merged_q' = <<>>
              /\ enq' = <<>>
              /\ IF run.chat_id # ""
                 THEN /\ _inject_queues' = _inject_queues \cup {run.chat_id}
                      /\ _stdin_map' = _stdin_map \cup {run.chat_id}
                      /\ _process_map' = _process_map \cup {run.chat_id}
                 ELSE UNCHANGED <<_inject_queues, _stdin_map, _process_map>>
              /\ run' = [run EXCEPT !.pc = "loop", !.base = Len(out)]
              /\ UNCHANGED out
         [] outcome = "FileNotFoundError" ->
              /\ out' = Append(out, SpawnErrorEvent)
              /\ run' = [run EXCEPT !.pc = "done", !.exit = "spawn_error"]
              /\ UNCHANGED <<proc, merged_q, enq, _inject_queues, _stdin_map, _process_map>>
         [] outcome = "OSError" ->
              \* PermissionError, NotADirectoryError: no except clause matches
              /\ run' = [run EXCEPT !.pc = "raised", !.exit = "spawn_error"]
              /\ UNCHANGED <<out, proc, merged_q, enq, _inject_queues, _stdin_map,
                             _process_map>>
         [] outcome = "stdin_write" ->
              /\ out' = Append(out, StdinErrorEvent)
              /\ proc' = [NoProc EXCEPT !.state = "exited"]     \* process.kill()
              /\ run' = [run EXCEPT !.pc = "done", !.exit = "spawn_error"]
              /\ UNCHANGED <<merged_q, enq, _inject_queues, _stdin_map, _process_map>>
    /\ UNCHANGED <<_session_map, sessions_file, _cancelled_prompts, runs, canc,
                   cancel_true, _code_folders, rulesVars, svcVars, brokerVars, gateVars>>

\* the generator is inside its consuming loop
InLoop == run.pc \in {"loop", "result"}

\* _read_stdout: one line of the subprocess reaches the merge queue
ReadStdout(line) ==
    /\ InLoop
    /\ proc.out_open
    /\ used.stdout < MaxStdout
    /\ merged_q' = Append(merged_q, <<"out", line>>)
    /\ enq' = Append(enq, <<"out", line>>)
    /\ used' = [used EXCEPT !.stdout = @ + 1]
    /\ UNCHANGED <<_session_map, sessions_file, _stdin_map, _process_map,
                   _cancelled_prompts, run, proc, out, canc, cancel_true, runs,
                   _inject_queues, _code_folders, rulesVars, svcVars, brokerVars, gateVars>>

\* _read_stderr: one line of the subprocess reaches the merge queue
ReadStderr(line) ==
    /\ InLoop
    /\ proc.err_open
    /\ used.stderr < MaxStderr
    /\ merged_q' = Append(merged_q, <<"err", line>>)
    /\ enq' = Append(enq, <<"err", line>>)
    /\ used' = [used EXCEPT !.stderr = @ + 1]
    /\ UNCHANGED <<_session_map, sessions_file, _stdin_map, _process_map,
                   _cancelled_prompts, run, proc, out, canc, cancel_true, runs,
                   _inject_queues, _code_folders, rulesVars, svcVars, brokerVars, gateVars>>

\* _read_stdout: the pipe is at end of file, the reader posts its marker
StdoutEof ==
    /\ InLoop
    /\ proc.out_open
    /\ proc' = [proc EXCEPT !.out_open = FALSE]
    /\ merged_q' = Append(merged_q, <<"out_eof", None>>)
    /\ enq' = Append(enq, <<"out_eof", None>>)
    /\ UNCHANGED <<_session_map, sessions_file, _stdin_map, _process_map,
                   _cancelled_prompts, run, out, canc, cancel_true, runs, used,
                   _inject_queues, _code_folders, rulesVars, svcVars, brokerVars, gateVars>>

\* _read_stderr: the pipe is at end of file, the reader posts its marker
StderrEof ==
    /\ InLoop
    /\ proc.err_open
    /\ proc' = [proc EXCEPT !.err_open = FALSE]
    /\ merged_q' = Append(merged_q, <<"err_eof", None>>)
    /\ enq' = Append(enq, <<"err_eof", None>>)
    /\ UNCHANGED <<_session_map, sessions_file, _stdin_map, _process_map,
                   _cancelled_prompts, run, out, canc, cancel_true, runs, used,
                   _inject_queues, _code_folders, rulesVars, svcVars, brokerVars, gateVars>>

\* the subprocess exits, on its own or after SIGTERM
ProcessExit ==
    /\ proc.state = "running"
    /\ proc' = [proc EXCEPT !.state = "exited"]
    /\ UNCHANGED <<_session_map, sessions_file, _stdin_map, _process_map,
                   _cancelled_prompts, run, out, enq, canc, cancel_true, runs, used,
                   provVars, rulesVars, svcVars, brokerVars, gateVars>>

\* json.loads(line): an object, another JSON value, or JSONDecodeError
json_loads(line) ==
    CASE line.text = "json" -> "dict"
      [] line.text = "json_list" -> "other"
      [] OTHER -> "JSONDecodeError"

IsResult(line) == json_loads(line) = "dict" /\ Get(line.obj, "type", "") = "result"

\* event.get("session_id", "")
SessionIdOf(line) == Get(line.obj, "session_id", NoSession)

\* a provider that stores whatever a result event of a chat reports
StoresSessionOfChat(sid, chat_id) == chat_id # ""

\* if sid and chat_id
StoresSession(sid, chat_id) == sid # NoSession /\ chat_id # ""

\* a queue that hands out injected items before all others
QueueGetInjectFirst(q) ==
    IF \E i \in 1..Len(q) : q[i][1] = "inject"
    THEN CHOOSE i \in 1..Len(q) :
            /\ q[i][1] = "inject"
            /\ \A j \in 1..(i - 1) : q[j][1] # "inject"
    ELSE 1

\* Queue.get: the position of the item taken
QueueGet(q) == 1

RemoveAt(q, i) == SubSeq(q, 1, i - 1) \o SubSeq(q, i + 1, Len(q))

Handled(r, emit) == [run |-> r, emit |-> emit, result |-> FALSE]

\* the body of the consuming loop for one item
HandleItem(r, kind, line) ==
    CASE kind = "out_eof" -> Handled([r EXCEPT !.out_done = TRUE], <<>>)
      [] kind = "err_eof" -> Handled([r EXCEPT !.err_done = TRUE], <<>>)
      [] kind = "cancel" ->
            Handled([r EXCEPT !.was_cancelled = TRUE, !.pc = "finally", !.exit = "cancel"],
                    <<CancelledEvent>>)
      [] kind \in {"inject", "out", "err"} /\ line.text = "" -> Handled(r, <<>>)
      [] kind = "inject" /\ line.text # "" -> Handled(r, <<line>>)
      [] kind = "out" /\ line.text # "" ->
            LET r1 == [r EXCEPT !.stdout_lines = Append(@, line)]
            IN  CASE json_loads(line) = "other" ->
                        \* event.get raises AttributeError
                        Handled([r1 EXCEPT !.pc = "finally", !.exit = "exception"], <<>>)
                  [] IsResult(line) ->
                        [run |-> [r1 EXCEPT !.got_result = TRUE, !.pc = "result"],
                         emit |-> <<>>,
                         result |-> TRUE]
                  [] OTHER -> Handled(r1, <<line>>)
      [] kind = "err" /\ line.text # "" ->
            Handled([r EXCEPT !.stderr_lines = Append(@, line)], <<StderrEvent(line)>>)

\* a loop that ends at the first eof marker
LoopTopEitherEof(r) ==
    IF r.pc = "loop" /\ (r.out_done \/ r.err_done)
    THEN [r EXCEPT !.pc = "finally", !.exit = "eof"]
    ELSE r

\* while not (out_done and err_done)
LoopTop(r) ==
    IF r.pc = "loop" /\ r.out_done /\ r.err_done
    THEN [r EXCEPT !.pc = "finally", !.exit = "eof"]
    ELSE r

\* GeneratorExit at the yield: the consumer closed the sequence
Closed(r) == [r EXCEPT !.pc = "finally", !.exit = "closed"]

\* a result handler that closes stdin before it stores the session
ResultOrderCloseFirst == <<"close", "store">>

\* the two statements of the result handler, in the order of the code
ResultOrder == <<"store", "close">>

\* one of the two statements of the result handler
ResultPart(part, line) ==
    IF part = "store"
    THEN /\ IF StoresSession(SessionIdOf(line), run.chat_id)
            THEN /\ _session_map' = Put(_session_map, run.chat_id, SessionIdOf(line))
                 /\ \E disk_ok \in BOOLEAN :
                      sessions_file' = _save_sessions(_session_map', disk_ok)
            ELSE UNCHANGED <<_session_map, sessions_file>>
         /\ UNCHANGED proc
    ELSE /\ proc' = [proc EXCEPT !.stdin_closed = TRUE]
         /\ UNCHANGED <<_session_map, sessions_file>>

\* one turn of the consuming loop; for a result event up to the first of the
\* two statements of its handler
Consume ==
    /\ run.pc = "loop"
    /\ merged_q # <<>>
    /\ LET i == QueueGet(merged_q)
           h == HandleItem(run, merged_q[i][1], merged_q[i][2])
       IN  /\ merged_q' = RemoveAt(merged_q, i)
           /\ out' = out \o h.emit
           /\ \E closed \in (IF h.emit # <<>> THEN BOOLEAN ELSE {FALSE}) :
                run' = IF closed THEN Closed(h.run) ELSE LoopTop(h.run)
           /\ IF h.result
              THEN ResultPart(ResultOrder[1], merged_q[i][2])
              ELSE UNCHANGED <<_session_map, sessions_file, proc>>
    /\ UNCHANGED <<_stdin_map, _process_map, _cancelled_prompts, enq, canc, cancel_true,
                   runs, used, _inject_queues, _code_folders, rulesVars, svcVars, brokerVars,
                   gateVars>>

\* the rest of the result handler: its second statement and the yield of the line
ConsumeResult ==
    /\ run.pc = "result"
    /\ LET line == run.stdout_lines[Len(run.stdout_lines)]
       IN  /\ ResultPart(ResultOrder[2], line)
           /\ out' = Append(out, line)
           /\ \E closed \in BOOLEAN :
                run' = IF closed THEN Closed(run) ELSE LoopTop([run EXCEPT !.pc = "loop"])
    /\ UNCHANGED <<_stdin_map, _process_map, _cancelled_prompts, enq, canc, cancel_true,
                   runs, used, provVars, rulesVars, svcVars, brokerVars, gateVars>>

\* a recovery test that leaves out the _is_retry conjunct
prompt_too_long_on_retry(r) ==
    /\ ~r.got_result
    /\ r.chat_id # ""
    /\ r.claude_session # NoSession
    /\ MatchesTooLong(r.stdout_lines \o r.stderr_lines)

\* the recovery test of the post-processing
prompt_too_long(r) ==
    /\ ~r.got_result
    /\ ~r.is_retry
    /\ r.chat_id # ""
    /\ r.claude_session # NoSession
    /\ MatchesTooLong(r.stdout_lines \o r.stderr_lines)

\* the finally block (wait for the process, deregister, close stdin) and the
\* post-processing up to its next yield or return
Teardown ==
    /\ run.pc = "finally"
    /\ run.was_cancelled \/ proc.state = "exited"    \* process.wait() returns
    /\ proc' = [proc EXCEPT !.state = "exited",
                            !.stdin_closed = (run.chat_id # "") \/ @]
    /\ _inject_queues' = _inject_queues \ ({run.chat_id} \ {""})
    /\ _process_map' = _process_map \ ({run.chat_id} \ {""})
    /\ _stdin_map' = _stdin_map \ ({run.chat_id} \ {""})
    /\ CASE run.exit = "exception" ->
              /\ run' = [run EXCEPT !.pc = "raised"]
              /\ UNCHANGED <<out, _cancelled_prompts>>
         [] run.exit = "closed" ->
              /\ run' = [run EXCEPT !.pc = "done"]
              /\ UNCHANGED <<out, _cancelled_prompts>>
         [] run.exit = "cancel" ->
              /\ _cancelled_prompts' =
                    IF run.chat_id # ""
                    THEN Put(_cancelled_prompts, run.chat_id,
                             OrElse(run.original_prompt, run.prompt))
                    ELSE _cancelled_prompts
              /\ run' = [run EXCEPT !.pc = "done"]
              /\ UNCHANGED out
         [] run.exit = "eof" ->
              /\ IF prompt_too_long(run)
                 THEN /\ out' = Append(out, CompactingEvent)
                      /\ run' = [run EXCEPT !.pc = "compact"]
                 ELSE IF ~run.got_result /\ run.stdout_lines = <<>>
                 THEN /\ out' = Append(out, NoStdoutEvent)
                      /\ run' = [run EXCEPT !.pc = "done"]
                 ELSE /\ run' = [run EXCEPT !.pc = "done"]
                      /\ UNCHANGED out
              /\ UNCHANGED _cancelled_prompts
    /\ UNCHANGED <<_session_map, sessions_file, enq, canc, cancel_true, runs, used,
                   _code_folders, merged_q, rulesVars, svcVars, brokerVars, gateVars>>

\* a recovery that keeps the session whatever the compaction gave
SessionsAfterCompactKeep(session_map, chat_id, compacted) == session_map

\* the session map after _try_compact_session returned
SessionsAfterCompact(session_map, chat_id, compacted) ==
    IF compacted THEN session_map ELSE Pop(session_map, chat_id)

\* _try_compact_session and the retry it leads to
Compact(compacted) ==
    /\ run.pc = "compact"
    /\ used' = [used EXCEPT !.compactions = @ + 1]
    /\ _session_map' = SessionsAfterCompact(_session_map, run.chat_id, compacted)
    /\ IF compacted
       THEN /\ out' = out \o <<CompactedEvent, DebugEvent>>
            /\ UNCHANGED sessions_file
       ELSE /\ out' = out \o <<ResetEvent, DebugEvent>>
            /\ \E disk_ok \in BOOLEAN :
                 sessions_file' = _save_sessions(_session_map', disk_ok)
    /\ run' = ImplEntry(run.prompt, run.chat_id, TRUE, NoPrompt, _session_map')
    /\ UNCHANGED <<_stdin_map, _process_map, _cancelled_prompts, proc, enq, canc,
                   cancel_true, runs, provVars, rulesVars, svcVars, brokerVars, gateVars>>

\* inject_event, called by the approval controller
inject_event(chat_id) ==
    /\ used.inject < MaxInject
    /\ used' = [used EXCEPT !.inject = @ + 1]
    /\ merged_q' = InjectQueue(chat_id, InjectedEvent)
    /\ enq' = IF InjectAccepted(chat_id)
              THEN Append(enq, <<"inject", JsonDumps(InjectedEvent)>>)
              ELSE enq
    /\ UNCHANGED <<_session_map, sessions_file, _stdin_map, _process_map,
                   _cancelled_prompts, run, proc, out, canc, cancel_true, runs,
                   _inject_queues, _code_folders, rulesVars, svcVars, brokerVars, gateVars>>

\* send_tool_result: its outcome; a write to a closed file object raises
\* ValueError, which the handler does not catch
SendToolResult(chat_id, pipe_ok) ==
    IF chat_id \notin _stdin_map THEN "false"
    ELSE IF proc.stdin_closed THEN "ValueError"
    ELSE IF ~pipe_ok THEN "false"
    ELSE "true"

\* send_tool_result, called by the agent controller
send_tool_result(chat_id) ==
    \E pipe_ok \in BOOLEAN :
        /\ used.tool_results < MaxToolResults
        /\ pipe_ok => proc.state = "running"
        /\ used' = [used EXCEPT !.tool_results = @ + 1,
                                !.tool_returned = SendToolResult(chat_id, pipe_ok)]
        /\ proc' = IF SendToolResult(chat_id, pipe_ok) = "true"
                   THEN [proc EXCEPT !.stdin_writes = @ + 1]
                   ELSE proc
        /\ UNCHANGED <<_session_map, sessions_file, _stdin_map, _process_map,
                       _cancelled_prompts, run, out, enq, canc, cancel_true, runs,
                       provVars, rulesVars, svcVars, brokerVars, gateVars>>

CancelIdle == [pc |-> "idle", chat_id |-> "", call |-> 0]

\* a cancel that goes by the process alone, registered or not
CancelFindsAnyProcess(chat_id) == proc.state = "running"

\* cancel: a process is registered for the chat and has not exited
CancelFinds(chat_id) == chat_id \in _process_map /\ proc.state = "running"

\* cancel, up to proc.terminate(); it returns False when no process runs
cancel_terminate(chat_id, max_cancels) ==
    /\ canc.pc = "idle"
    /\ used.cancel < max_cancels
    /\ used' = [used EXCEPT !.cancel = @ + 1]
    /\ IF CancelFinds(chat_id)
       THEN /\ canc' = [pc |-> "put", chat_id |-> chat_id, call |-> runs]
            /\ proc' = [proc EXCEPT !.signalled = TRUE]
       ELSE UNCHANGED <<canc, proc>>
    /\ UNCHANGED <<_session_map, sessions_file, _stdin_map, _process_map,
                   _cancelled_prompts, run, out, enq, cancel_true, runs,
                   provVars, rulesVars, svcVars, brokerVars, gateVars>>

\* cancel, from the queue lookup to return True
cancel_put ==
    /\ canc.pc = "put"
    /\ IF canc.chat_id \in _inject_queues
       THEN /\ merged_q' = Append(merged_q, <<"cancel", None>>)
            /\ enq' = Append(enq, <<"cancel", None>>)
       ELSE UNCHANGED <<merged_q, enq>>
    /\ cancel_true' = cancel_true \cup {canc.call}
    /\ canc' = CancelIdle
    /\ UNCHANGED <<_session_map, sessions_file, _stdin_map, _process_map,
                   _cancelled_prompts, run, proc, out, runs, used,
                   _inject_queues, _code_folders, rulesVars, svcVars, brokerVars, gateVars>>

(***************************************************************************)
(* Agent session service: stream_run                                       *)
(***************************************************************************)
\* f"data: {text}\n\n"
Sse(text) == [data |-> text]

StatusEvent == JsonDumps([type |-> "status", message |-> "status_message"])

DoneEvent == JsonDumps([type |-> "done", exit_code |-> 0])

TextEvent(line) == JsonDumps([type |-> "text", content |-> line.text])

\* the message is fixed for FileNotFoundError and str(exc) for the rest
StreamErrorEvent(exc) == JsonDumps([type |-> "error", message |-> exc])

\* what the provider yields to stream_run, and how its generator ends
ProviderLines == {L_result_s2, L_list, TextLine("warn"), L_empty}

ProviderEndings == {"return", "FileNotFoundError", "Exception"}

\* file_monitor: absent, present with no file changed, present with a change
MonitorStates == {"none", "unchanged", "changed"}

StreamIdle ==
    [pc |-> "idle", script |-> <<>>, ending |-> "return", monitor |-> "none",
     pos |-> 0, emitted |-> <<>>, restart |-> FALSE, cleaned |-> FALSE]

\* a service that passes on only JSON objects verbatim
WrapLineObjectsOnly(line) ==
    IF json_loads(line) = "dict" THEN Sse(line) ELSE Sse(TextEvent(line))

\* the body of the for loop: json.loads(line) succeeds, or JSONDecodeError
WrapLine(line) ==
    IF json_loads(line) # "JSONDecodeError" THEN Sse(line) ELSE Sse(TextEvent(line))

\* the first next(): images, prompt, snapshot, and the status event
S_Start ==
    /\ stream.pc = "created"
    /\ stream' = [stream EXCEPT !.pc = "lines", !.emitted = <<Sse(StatusEvent)>>]
    /\ UNCHANGED <<repo, overlap, fs, file_monitor, rulesVars, brokerVars, gateVars, provVars, runVars>>

\* a later next(): the provider yields a line, returns, or raises
S_Next ==
    /\ stream.pc = "lines"
    /\ IF stream.pos < Len(stream.script)
       THEN stream' = [stream EXCEPT !.pos = @ + 1,
                                     !.emitted = Append(@, WrapLine(stream.script[stream.pos + 1]))]
       ELSE IF stream.ending = "return"
       THEN stream' = [stream EXCEPT !.pc = "last",
                                     !.restart = (stream.monitor = "changed"),
                                     !.emitted = Append(@, Sse(DoneEvent))]
       ELSE stream' = [stream EXCEPT !.pc = "last",
                                     !.emitted = Append(@, Sse(StreamErrorEvent(stream.ending)))]
    /\ UNCHANGED <<repo, overlap, fs, file_monitor, rulesVars, brokerVars, gateVars, provVars, runVars>>

\* the next() after the last event: the finally block, then StopIteration
S_Finish ==
    /\ stream.pc = "last"
    /\ stream' = [stream EXCEPT !.pc = "finished", !.cleaned = TRUE]
    /\ UNCHANGED <<repo, overlap, fs, file_monitor, rulesVars, brokerVars, gateVars, provVars, runVars>>

\* the consumer closes the generator at a yield; the status event is yielded
\* before the try statement, so closing there skips the finally block
S_Close ==
    /\ stream.pc \in {"lines", "last"}
    /\ stream' = [stream EXCEPT !.pc = "closed", !.cleaned = (Len(stream.emitted) > 1)]
    /\ UNCHANGED <<repo, overlap, fs, file_monitor, rulesVars, brokerVars, gateVars, provVars, runVars>>

(***************************************************************************)
(* Chat repository: one JSON file per chat under chats_dir.  A chat id is   *)
(* a sequence of characters.                                                *)
(***************************************************************************)
\* the characters of the ids below that the class [a-zA-Z0-9_-] holds
SafeChars == {"a", "b", "1", "_", "-"}

RepoChatIds == {<<"a", "1">>, <<"b", "_">>, <<"a", "/", "b">>, <<>>}

RepoRoles == {"user", "assistant", "system"}

RepoContents == {"hello world", "ok"}

TIMESTAMP == "2026-02-18T00:00:00"

\* what load_chat returns when it has no chat: Python's None
NoChat == [kind |-> "None"]

\* re.sub removes every character outside the class; an id that is empty
\* afterwards, or that lost a character, raises ValueError
get_chat_file_path(chat_id) ==
    LET safe_chat_id == SelectSeq(chat_id, LAMBDA c : c \in SafeChars)
    IN  IF safe_chat_id = <<>> \/ safe_chat_id # chat_id
        THEN [raised |-> TRUE]
        ELSE [raised |-> FALSE, path |-> chat_id]

RepoPaths == {chat_id \in RepoChatIds : ~get_chat_file_path(chat_id).raised}

NoFile == [kind |-> "none"]

CorruptFile == [kind |-> "corrupt"]

JsonFile(chat_data) == [kind |-> "json", data |-> chat_data]

\* None for an invalid id, a missing file and a file that does not parse
load_chat(files, chat_id) ==
    LET chat_path == get_chat_file_path(chat_id)
    IN  IF chat_path.raised THEN NoChat
        ELSE IF files[chat_path.path].kind = "json" THEN files[chat_path.path].data
        ELSE NoChat

\* the content of the first message whose role is user, else "New Chat"
TitleOf(messages) ==
    LET users == SelectSeq(messages, LAMBDA msg : msg.role = "user")
    IN  IF users # <<>> /\ users[1].content # "" THEN users[1].content ELSE "New Chat"

\* created_at 0 and title "" stand for a missing key
save_chat(files, chat_data, now) ==
    IF chat_data.chat_id = <<>> THEN [raised |-> TRUE, files |-> files]
    ELSE IF get_chat_file_path(chat_data.chat_id).raised THEN [raised |-> TRUE, files |-> files]
    ELSE LET saved == [chat_data EXCEPT
                         !.created_at = IF @ = 0 THEN now ELSE @,
                         !.updated_at = now,
                         !.title = IF @ = "" THEN TitleOf(chat_data.messages) ELSE @]
         IN  [raised |-> FALSE,
              files |-> [files EXCEPT ![chat_data.chat_id] = JsonFile(saved)],
              chat |-> saved]

NewChat(chat_id) ==
    [chat_id |-> chat_id, messages |-> <<>>, created_at |-> 0, updated_at |-> 0, title |-> ""]

Message(role, content) == [role |-> role, content |-> content, timestamp |-> TIMESTAMP]

LoadedOrFresh(chat_data, chat_id) == NewChat(chat_id)

\* if not chat_data: chat_data = {"chat_id": chat_id, "messages": []}
LoadedOrNew(chat_data, chat_id) ==
    IF chat_data = NoChat THEN NewChat(chat_id) ELSE chat_data

append_message(files, chat_id, role, content, now) ==
    IF role \notin {"user", "assistant"} THEN [raised |-> TRUE, files |-> files]
    ELSE LET chat_data == LoadedOrNew(load_chat(files, chat_id), chat_id)
         IN  save_chat(files,
                       [chat_data EXCEPT !.messages = Append(@, Message(role, content))],
                       now)

ListEntry(chat_data) ==
    [chat_id |-> chat_data.chat_id, title |-> chat_data.title,
     created_at |-> chat_data.created_at, updated_at |-> chat_data.updated_at,
     message_count |-> Len(chat_data.messages)]

RECURSIVE ByUpdatedAt(_)
\* chats.sort(key=updated_at, reverse=True)
ByUpdatedAt(entries) ==
    IF entries = {} THEN <<>>
    ELSE LET first == CHOOSE e \in entries : \A o \in entries : o.updated_at <= e.updated_at
         IN  <<first>> \o ByUpdatedAt(entries \ {first})

\* one entry per *.json file that loads and has a message
list_chats(files) ==
    ByUpdatedAt({ListEntry(load_chat(files, p)) :
                   p \in {q \in RepoPaths : /\ load_chat(files, q) # NoChat
                                            /\ Len(load_chat(files, q).messages) > 0}})

\* delete_chat: ValueError for an invalid id, else whether a file was removed
delete_chat(files, chat_id) ==
    LET chat_path == get_chat_file_path(chat_id)
    IN  IF chat_path.raised THEN [raised |-> TRUE, files |-> files]
        ELSE [raised |-> FALSE,
              files |-> [files EXCEPT ![chat_path.path] = NoFile],
              returned |-> files[chat_path.path] # NoFile]

RepoIdle ==
    [files |-> [p \in RepoPaths |-> NoFile], now |-> 1, calls |-> 0, last |-> [op |-> "none"]]

R_Append ==
    \E chat_id \in RepoChatIds, role \in RepoRoles, content \in RepoContents :
        LET res == append_message(repo.files, chat_id, role, content, repo.now)
        IN  /\ repo.calls < MaxRepoCalls
            /\ repo' = [files |-> res.files, now |-> repo.now + 1, calls |-> repo.calls + 1,
                        last |-> [op |-> "append", chat_id |-> chat_id, role |-> role,
                                  content |-> content, before |-> repo.files,
                                  raised |-> res.raised]]
            /\ UNCHANGED <<stream, overlap, fs, file_monitor, rulesVars, brokerVars, gateVars, provVars, runVars>>

R_List ==
    /\ repo.last.op # "list"
    /\ repo' = [repo EXCEPT !.last = [op |-> "list", before |-> repo.files,
                                      returned |-> list_chats(repo.files)]]
    /\ UNCHANGED <<stream, overlap, fs, file_monitor, rulesVars, brokerVars, gateVars, provVars, runVars>>

R_Delete ==
    \E chat_id \in RepoChatIds :
        LET res == delete_chat(repo.files, chat_id)
        IN  /\ repo.calls < MaxRepoCalls
            /\ repo' = [repo EXCEPT !.files = res.files, !.calls = @ + 1,
                                    !.last = [op |-> "delete", chat_id |-> chat_id,
                                              before |-> repo.files, raised |-> res.raised]]
            /\ UNCHANGED <<stream, overlap, fs, file_monitor, rulesVars, brokerVars, gateVars, provVars, runVars>>

(***************************************************************************)
(* Two run_stream calls for one chat_id.  Each map of the provider holds,   *)
(* for that chat, the queue, the stdin or the process of one of the two     *)
(* runs (1 or 2), or has no entry for the chat (0).                         *)
(***************************************************************************)
OvRuns == {1, 2}

NoEntry == 0

OvRunIdle ==
    [pc |-> "new", alive |-> FALSE, stdin_closed |-> FALSE, queue |-> <<>>,
     was_cancelled |-> FALSE, overlapped |-> FALSE]

OverlapIdle ==
    [q |-> NoEntry, stdin |-> NoEntry, process |-> NoEntry,
     r |-> [i \in OvRuns |-> OvRunIdle],
     order |-> <<>>,            \* the runs in the order they finished registering
     interleaved |-> FALSE,     \* a run began registering while the other was at it
     calls |-> 0, last |-> [op |-> "none", returned |-> "none"]]

OtherRun(i) == 3 - i

OvUnchanged == UNCHANGED <<stream, repo, fs, file_monitor, rulesVars, brokerVars, gateVars, provVars, runVars>>

\* Popen and the write of the prompt: nothing rejects a chat that has a run
V_Start(i) ==
    /\ overlap.r[i].pc = "new"
    /\ overlap' = [overlap EXCEPT !.r[i].pc = "reg_q", !.r[i].alive = TRUE]
    /\ OvUnchanged

\* self._inject_queues[chat_id] = merged_q
V_RegQueue(i) ==
    /\ overlap.r[i].pc = "reg_q"
    /\ overlap' = [overlap EXCEPT
                     !.q = i, !.r[i].pc = "reg_stdin",
                     !.interleaved = @ \/ overlap.r[OtherRun(i)].pc \in {"reg_stdin", "reg_proc"}]
    /\ OvUnchanged

\* self._stdin_map[chat_id] = process.stdin
V_RegStdin(i) ==
    /\ overlap.r[i].pc = "reg_stdin"
    /\ overlap' = [overlap EXCEPT !.stdin = i, !.r[i].pc = "reg_proc"]
    /\ OvUnchanged

\* self._process_map[chat_id] = process
V_RegProcess(i) ==
    /\ overlap.r[i].pc = "reg_proc"
    /\ overlap' = [overlap EXCEPT !.process = i, !.r[i].pc = "loop",
                                  !.order = Append(@, i)]
    /\ OvUnchanged

\* the subprocess of the run exits, by itself or after a signal
V_Exit(i) ==
    /\ overlap.r[i].pc \notin {"new", "done"}
    /\ overlap.r[i].alive
    /\ overlap' = [overlap EXCEPT !.r[i].alive = FALSE]
    /\ OvUnchanged

LeavesLoop(i, cancelled) ==
    [overlap EXCEPT !.r[i].pc = "finally", !.r[i].was_cancelled = cancelled,
                    !.r[i].overlapped = (overlap.r[OtherRun(i)].pc = "loop")]

\* the loop takes an item of its own queue: the cancel sentinel ends it
V_Take(i) ==
    /\ overlap.r[i].pc = "loop"
    /\ overlap.r[i].queue # <<>>
    /\ overlap' = IF Head(overlap.r[i].queue) = "cancel"
                  THEN [LeavesLoop(i, TRUE) EXCEPT !.r[i].queue = Tail(@)]
                  ELSE [overlap EXCEPT !.r[i].queue = Tail(@)]
    /\ OvUnchanged

\* the loop has taken both eof markers of its exited subprocess
V_Eof(i) ==
    /\ overlap.r[i].pc = "loop"
    /\ ~overlap.r[i].alive
    /\ overlap' = LeavesLoop(i, FALSE)
    /\ OvUnchanged

\* finally: process.wait(), with the 3 s grace and the kill after a cancel
V_Wait(i) ==
    /\ overlap.r[i].pc = "finally"
    /\ overlap.r[i].was_cancelled \/ ~overlap.r[i].alive
    /\ overlap' = [overlap EXCEPT !.r[i].pc = "pop_q", !.r[i].alive = FALSE]
    /\ OvUnchanged

\* a teardown that removes an entry only when it is the run's own
PopOwnEntry(entry, i) == IF entry = i THEN NoEntry ELSE entry

\* dict.pop(chat_id, None): the chat has no entry afterwards, whose ever it was
PopEntry(entry, i) == NoEntry

\* self._inject_queues.pop(chat_id, None)
V_PopQueue(i) ==
    /\ overlap.r[i].pc = "pop_q"
    /\ overlap' = [overlap EXCEPT !.q = PopEntry(@, i), !.r[i].pc = "pop_proc"]
    /\ OvUnchanged

\* self._process_map.pop(chat_id, None)
V_PopProcess(i) ==
    /\ overlap.r[i].pc = "pop_proc"
    /\ overlap' = [overlap EXCEPT !.process = PopEntry(@, i), !.r[i].pc = "pop_stdin"]
    /\ OvUnchanged

\* stdin = self._stdin_map.pop(chat_id, None), closed when it is still open
V_PopStdin(i) ==
    /\ overlap.r[i].pc = "pop_stdin"
    /\ LET after == PopEntry(overlap.stdin, i)
           popped == IF after = NoEntry THEN overlap.stdin ELSE NoEntry
       IN  overlap' = [overlap EXCEPT
                         !.stdin = after,
                         !.r = [j \in OvRuns |->
                                  [overlap.r[j] EXCEPT
                                     !.pc = IF j = i THEN "done" ELSE @,
                                     !.stdin_closed = @ \/ j = popped]]]
    /\ OvUnchanged

OvCalled(op, returned) == [op |-> op, returned |-> returned]

\* cancel(chat_id), for the chat of the two runs
V_Cancel ==
    /\ overlap.calls < MaxOverlapCalls
    /\ IF overlap.process = NoEntry \/ ~overlap.r[overlap.process].alive
       THEN overlap' = [overlap EXCEPT !.calls = @ + 1, !.last = OvCalled("cancel", "false")]
       ELSE overlap' = [overlap EXCEPT
                          !.calls = @ + 1, !.last = OvCalled("cancel", "true"),
                          !.r = [j \in OvRuns |->
                                   IF j = overlap.q
                                   THEN [overlap.r[j] EXCEPT !.queue = Append(@, "cancel")]
                                   ELSE overlap.r[j]]]
    /\ OvUnchanged

\* inject_event(chat_id, event)
V_Inject ==
    /\ overlap.calls < MaxOverlapCalls
    /\ IF overlap.q = NoEntry
       THEN overlap' = [overlap EXCEPT !.calls = @ + 1, !.last = OvCalled("inject_event", "false")]
       ELSE overlap' = [overlap EXCEPT
                          !.calls = @ + 1, !.last = OvCalled("inject_event", "true"),
                          !.r[overlap.q].queue = Append(@, "inject")]
    /\ OvUnchanged

\* send_tool_result(chat_id, ...): a closed file object raises ValueError, a
\* broken pipe is the OSError that gives False
V_SendToolResult ==
    \E pipe_ok \in BOOLEAN :
        /\ overlap.calls < MaxOverlapCalls
        /\ overlap.stdin # NoEntry => (pipe_ok => overlap.r[overlap.stdin].alive)
        /\ overlap' = [overlap EXCEPT
                         !.calls = @ + 1,
                         !.last = OvCalled("send_tool_result",
                                    IF overlap.stdin = NoEntry THEN "false"
                                    ELSE IF overlap.r[overlap.stdin].stdin_closed
                                    THEN "ValueError"
                                    ELSE IF pipe_ok THEN "true" ELSE "false")]
        /\ OvUnchanged

(***************************************************************************)
(* The gate's edit executors, on one existing file.  A file's content and   *)
(* the strings of an edit are sequences of characters.                      *)
(***************************************************************************)
\* the least index at which old occurs in content, 0 when it does not
IndexOf(content, old) ==
    LET at == {i \in 1..(Len(content) - Len(old) + 1) :
                 SubSeq(content, i, i + Len(old) - 1) = old}
    IN  IF at = {} THEN 0 ELSE CHOOSE i \in at : \A j \in at : i <= j

\* old in content
Contains(content, old) == IndexOf(content, old) # 0

\* content.replace(old, new, 1)
ReplaceFirst(content, old, new) ==
    LET i == IndexOf(content, old)
    IN  IF i = 0 THEN content
        ELSE SubSeq(content, 1, i - 1) \o new \o SubSeq(content, i + Len(old), Len(content))

RECURSIVE ApplyEdits(_, _)
\* the for loop of _exec_multiedit: the content in memory after the edits, or
\* the ValueError of the first edit whose old_string is not in it
ApplyEdits(content, edits) ==
    IF edits = <<>> THEN [raised |-> FALSE, content |-> content]
    ELSE IF ~Contains(content, Head(edits).old_string)
         THEN [raised |-> TRUE, content |-> content]
         ELSE ApplyEdits(ReplaceFirst(content, Head(edits).old_string,
                                      Head(edits).new_string),
                         Tail(edits))

\* an executor that writes the file after every edit
FileAfterFailurePartial(before, partial) == partial

\* the file after a ValueError: the write stands after the loop
FileAfterFailure(before, partial) == before

_exec_multiedit(file, edits) ==
    LET r == ApplyEdits(file, edits)
    IN  IF r.raised
        THEN [raised |-> TRUE, file |-> FileAfterFailure(file, r.content)]
        ELSE [raised |-> FALSE, file |-> r.content]

\* _exec_edit: one replacement, or ValueError
_exec_edit(file, old_string, new_string) ==
    IF ~Contains(file, old_string) THEN [raised |-> TRUE, file |-> file]
    ELSE [raised |-> FALSE, file |-> ReplaceFirst(file, old_string, new_string)]

EditOlds == {<<"a">>, <<"a", "b">>, <<"b", "b">>}

EditNews == {<<>>, <<"b">>}

EditSet == {[old_string |-> o, new_string |-> n] : o \in EditOlds, n \in EditNews}

FileContents == {<<"a", "b">>, <<"a", "a", "b">>, <<"b", "a">>}

FsIdle == [file |-> <<>>, calls |-> 0, last |-> [op |-> "none"]]

X_MultiEdit ==
    \E edits \in SeqsUpTo(EditSet, MaxEdits) :
        LET res == _exec_multiedit(fs.file, edits)
        IN  /\ fs.calls < MaxEditCalls
            /\ fs' = [file |-> res.file, calls |-> fs.calls + 1,
                      last |-> [op |-> "MultiEdit", before |-> fs.file, edits |-> edits,
                                raised |-> res.raised]]
            /\ UNCHANGED <<stream, repo, overlap, file_monitor, rulesVars, brokerVars, gateVars, provVars,
                           runVars>>

X_Edit ==
    \E edit \in EditSet :
        LET res == _exec_edit(fs.file, edit.old_string, edit.new_string)
        IN  /\ fs.calls < MaxEditCalls
            /\ fs' = [file |-> res.file, calls |-> fs.calls + 1,
                      last |-> [op |-> "Edit", before |-> fs.file, edits |-> <<edit>>,
                                raised |-> res.raised]]
            /\ UNCHANGED <<stream, repo, overlap, file_monitor, rulesVars, brokerVars, gateVars, provVars,
                           runVars>>

(***************************************************************************)
(* The restart watchdog (file_monitor_service.py) and the stream_run calls *)
(* that reach it.  Each stream_run runs in a request thread of its own.     *)
(***************************************************************************)
MonRuns == 1..MaxMonitorRuns

MonChats == {CHAT_ID, "c2", ""}

MonRunIdle == [pc |-> "idle", chat_id |-> "", changed |-> FALSE, after |-> "none"]

MonitorIdle ==
    [_restart_scheduled |-> FALSE, _restart_pending |-> FALSE,
     restarts |-> 0,        \* _do_restart threads started
     exited |-> FALSE,      \* os._exit(0) was reached
     r |-> [i \in MonRuns |-> MonRunIdle]]

\* active_run_count: len(self._process_map)
active_run_count == Cardinality(_process_map)

MonUnchanged ==
    UNCHANGED <<stream, repo, overlap, fs, rulesVars, brokerVars, gateVars, provVars,
                _session_map, sessions_file, _stdin_map, _cancelled_prompts,
                run, proc, out, enq, canc, cancel_true, runs, used>>

\* stream_run up to the provider's Popen: the snapshot is taken, no process yet
M_Start(i, chat_id) ==
    /\ ~file_monitor.exited
    /\ file_monitor.r[i].pc = "idle"
    /\ file_monitor' = [file_monitor EXCEPT !.r[i].pc = "spawn", !.r[i].chat_id = chat_id]
    /\ UNCHANGED _process_map
    /\ MonUnchanged

\* the provider starts the subprocess and, if chat_id, registers it
M_Register(i) ==
    /\ ~file_monitor.exited
    /\ file_monitor.r[i].pc = "spawn"
    /\ file_monitor' = [file_monitor EXCEPT !.r[i].pc = "running"]
    /\ _process_map' = IF file_monitor.r[i].chat_id # ""
                       THEN _process_map \cup {file_monitor.r[i].chat_id}
                       ELSE _process_map
    /\ MonUnchanged

\* the provider's finally block: the subprocess is gone, the chat's entry is
\* popped; run_stream then returns or raises, and has_changed is what the
\* snapshots give
M_ProcessEnd(i, ending, changed) ==
    /\ ~file_monitor.exited
    /\ file_monitor.r[i].pc = "running"
    /\ file_monitor' = [file_monitor EXCEPT
                          !.r[i].pc = IF ending = "return" THEN "completed" ELSE "finally",
                          !.r[i].changed = changed]
    /\ _process_map' = IF file_monitor.r[i].chat_id # ""
                       THEN _process_map \ {file_monitor.r[i].chat_id}
                       ELSE _process_map
    /\ MonUnchanged

\* schedule_restart up to the test of the active count: return if a restart
\* is scheduled, mark it pending if a run is active
ScheduleBegin(i, after) ==
    IF file_monitor._restart_scheduled
    THEN [file_monitor EXCEPT !.r[i].pc = after]
    ELSE IF active_run_count > 0
         THEN [file_monitor EXCEPT !._restart_pending = TRUE, !.r[i].pc = after]
         ELSE [file_monitor EXCEPT !.r[i].pc = "commit", !.r[i].after = after]

\* stream_run after the for loop: schedule_restart() if the files changed
M_Completed(i) ==
    /\ ~file_monitor.exited
    /\ file_monitor.r[i].pc = "completed"
    /\ file_monitor' = IF file_monitor.r[i].changed
                       THEN ScheduleBegin(i, "finally")
                       ELSE [file_monitor EXCEPT !.r[i].pc = "finally"]
    /\ UNCHANGED _process_map
    /\ MonUnchanged

\* schedule_restart from the flag assignments on: the _do_restart thread is
\* started
M_Commit(i) ==
    /\ ~file_monitor.exited
    /\ file_monitor.r[i].pc = "commit"
    /\ file_monitor' = [file_monitor EXCEPT !._restart_scheduled = TRUE,
                                            !._restart_pending = FALSE,
                                            !.restarts = @ + 1,
                                            !.r[i].pc = file_monitor.r[i].after]
    /\ UNCHANGED _process_map
    /\ MonUnchanged

\* stream_run's finally block: check_deferred_restart()
M_Finally(i) ==
    /\ ~file_monitor.exited
    /\ file_monitor.r[i].pc = "finally"
    /\ file_monitor' = IF ~file_monitor._restart_pending
                       THEN [file_monitor EXCEPT !.r[i].pc = "finished"]
                       ELSE ScheduleBegin(i, "finished")
    /\ UNCHANGED _process_map
    /\ MonUnchanged

\* _do_restart after its sleep: the watcher is spawned and os._exit(0) ends
\* the server process
M_DoRestart ==
    /\ ~file_monitor.exited
    /\ file_monitor.restarts > 0
    /\ file_monitor' = [file_monitor EXCEPT !.exited = TRUE]
    /\ UNCHANGED _process_map
    /\ MonUnchanged

SvcQuiet ==
    /\ stream = StreamIdle
    /\ repo = RepoIdle
    /\ overlap = OverlapIdle
    /\ fs = FsIdle
    /\ file_monitor = MonitorIdle

(***************************************************************************)
(* Specifications                                                          *)
(***************************************************************************)
RulesQuiet ==
    /\ nextRuleId = Len(_DEFAULT_RULES) + 1
    /\ call = [tool |-> "Bash", input |-> ToolInput(<<>>, <<>>, <<>>)]
    /\ verdict = NoVerdict

BrokerQuiet ==
    /\ _pending = <<>>
    /\ _decisions = <<>>
    /\ _events = <<>>
    /\ waiters = {}
    /\ fe = FeIdle
    /\ feCalls = 0
    /\ feResp = FeNoResp
    /\ waitLog = <<>>

GateQuiet ==
    /\ gate = GateIdle
    /\ gateCalls = 0
    /\ executed = <<>>
    /\ replies = <<>>

ProvQuiet ==
    /\ _inject_queues = {}
    /\ _code_folders = <<>>
    /\ merged_q = <<>>

RunQuiet ==
    /\ _session_map = <<>>
    /\ sessions_file = <<>>
    /\ _stdin_map = {}
    /\ _process_map = {}
    /\ _cancelled_prompts = <<>>
    /\ run = RunIdle
    /\ proc = NoProc
    /\ out = <<>>
    /\ enq = <<>>
    /\ canc = CancelIdle
    /\ cancel_true = {}
    /\ runs = 0
    /\ used = NoUse

InitBroker ==
    /\ RunQuiet
    /\ SvcQuiet
    /\ _rules \in {WithIds(_DEFAULT_RULES), WithIds(_DEFAULT_RULES \o <<UserDenyRule>>)}
    /\ RulesQuiet
    /\ BrokerQuiet
    /\ GateQuiet
    /\ _inject_queues \in {{}, {CHAT_ID}}
    /\ _code_folders = [c \in {CHAT_ID} |-> W_w]
    /\ merged_q = <<>>

NextBroker ==
    \/ G_Call(MaxGateCalls)
    \/ G_PostOk
    \/ G_PostLost
    \/ G_PostUnreached
    \/ G_WaitBegin
    \/ G_WaitUnreached
    \/ G_WaitReturn
    \/ G_WaitAbort
    \/ G_Finish
    \/ G_FinishQuestion
    \/ WaitReturnOrphan
    \/ DecideBegin
    \/ DecideCommit
    \/ AnswerBegin
    \/ AnswerCommit
    \/ \E op \in {"request", "question"} : StrayPost(op)
    \/ \E rid \in FeRids \ {MissingRid} : StrayWait(rid)

SpecBroker == InitBroker /\ [][NextBroker]_vars

(***************************************************************************)
(* SpecServe: the RPC client serving several tools/call requests in a row,  *)
(* with a broker nobody answers: a request is resolved by the rules, by the *)
(* folder, or by the bound of the wait                                      *)
(***************************************************************************)
NextServe ==
    \/ G_Call(MaxServeCalls)
    \/ G_PostOk
    \/ G_WaitBegin
    \/ G_WaitReturn
    \/ G_Finish
    \/ G_FinishQuestion

SpecServe == InitBroker /\ [][NextServe]_vars

(***************************************************************************)
(* SpecRules: the rule engine on its own                                   *)
(***************************************************************************)
InitRules ==
    /\ RunQuiet
    /\ SvcQuiet
    /\ _rules \in {<<>>, WithIds(_DEFAULT_RULES)}
    /\ nextRuleId = Len(_DEFAULT_RULES) + 1
    /\ call \in Calls
    /\ verdict = NoVerdict
    /\ BrokerQuiet
    /\ GateQuiet
    /\ ProvQuiet

NextRules == add_rule \/ remove_rule \/ Check

SpecRules == InitRules /\ [][NextRules]_vars

(***************************************************************************)
(* SpecRun: one provider, its run_stream generator, the two reader threads, *)
(* the subprocess, and the threads that call cancel and inject_event       *)
(***************************************************************************)
InitRun ==
    /\ SvcQuiet
    /\ _rules = <<>>
    /\ RulesQuiet
    /\ BrokerQuiet
    /\ GateQuiet
    /\ _inject_queues = {}
    /\ _code_folders = [c \in {CHAT_ID} |-> W_w]
    /\ merged_q = <<>>
    /\ _session_map = [c \in {CHAT_ID} |-> "s1"]
    /\ sessions_file = SessionsDocument(_session_map, _code_folders)
    /\ _stdin_map = {}
    /\ _process_map = {}
    /\ _cancelled_prompts = <<>>
    /\ run = RunIdle
    /\ proc = NoProc
    /\ out = <<>>
    /\ enq = <<>>
    /\ canc = CancelIdle
    /\ cancel_true = {}
    /\ runs = 0
    /\ used = NoUse

NextRun ==
    \/ \E chat_id \in Chats : run_stream(chat_id, MaxRuns)
    \/ \E outcome \in SpawnOutcomes : Spawn(outcome)
    \/ \E line \in StdoutLines : ReadStdout(line)
    \/ \E line \in StderrLines : ReadStderr(line)
    \/ StdoutEof
    \/ StderrEof
    \/ ProcessExit
    \/ Consume
    \/ ConsumeResult
    \/ Teardown
    \/ \E compacted \in BOOLEAN : Compact(compacted)
    \/ inject_event(CHAT_ID)
    \/ cancel_terminate(CHAT_ID, MaxCancels)
    \/ cancel_put

SpecRun == InitRun /\ [][NextRun]_vars

(***************************************************************************)
(* SpecStream: one stream_run generator over a provider that yields a few   *)
(* lines and then returns or raises                                         *)
(***************************************************************************)
InitStream ==
    /\ _rules = <<>>
    /\ RulesQuiet
    /\ BrokerQuiet
    /\ GateQuiet
    /\ ProvQuiet
    /\ RunQuiet
    /\ repo = RepoIdle
    /\ overlap = OverlapIdle
    /\ fs = FsIdle
    /\ file_monitor = MonitorIdle
    /\ \E script \in SeqsUpTo(ProviderLines, MaxLines), ending \in ProviderEndings,
          monitor \in MonitorStates :
            stream = [StreamIdle EXCEPT !.pc = "created", !.script = script,
                                        !.ending = ending, !.monitor = monitor]

NextStream == S_Start \/ S_Next \/ S_Finish \/ S_Close

SpecStream == InitStream /\ [][NextStream]_vars

(***************************************************************************)
(* SpecRepo: a few calls of the chat repository on a directory that is      *)
(* empty or holds one file that is not JSON                                 *)
(***************************************************************************)
InitRepo ==
    /\ _rules = <<>>
    /\ RulesQuiet
    /\ BrokerQuiet
    /\ GateQuiet
    /\ ProvQuiet
    /\ RunQuiet
    /\ stream = StreamIdle
    /\ overlap = OverlapIdle
    /\ fs = FsIdle
    /\ file_monitor = MonitorIdle
    /\ \E corrupt \in SUBSET {<<"b", "_">>} :
          repo = [RepoIdle EXCEPT
                    !.files = [p \in RepoPaths |-> IF p \in corrupt THEN CorruptFile ELSE NoFile]]

NextRepo == R_Append \/ R_List \/ R_Delete

SpecRepo == InitRepo /\ [][NextRepo]_vars

(***************************************************************************)
(* SpecOverlap: two run_stream calls for one chat_id, started at any time,   *)
(* and the threads that call cancel, inject_event and send_tool_result      *)
(***************************************************************************)
InitOverlap ==
    /\ _rules = <<>>
    /\ RulesQuiet
    /\ BrokerQuiet
    /\ GateQuiet
    /\ ProvQuiet
    /\ RunQuiet
    /\ stream = StreamIdle
    /\ repo = RepoIdle
    /\ overlap = OverlapIdle
    /\ fs = FsIdle
    /\ file_monitor = MonitorIdle

NextOverlap ==
    \/ \E i \in OvRuns : V_Start(i)
    \/ \E i \in OvRuns : V_RegQueue(i)
    \/ \E i \in OvRuns : V_RegStdin(i)
    \/ \E i \in OvRuns : V_RegProcess(i)
    \/ \E i \in OvRuns : V_Exit(i)
    \/ \E i \in OvRuns : V_Take(i)
    \/ \E i \in OvRuns : V_Eof(i)
    \/ \E i \in OvRuns : V_Wait(i)
    \/ \E i \in OvRuns : V_PopQueue(i)
    \/ \E i \in OvRuns : V_PopProcess(i)
    \/ \E i \in OvRuns : V_PopStdin(i)
    \/ V_Cancel
    \/ V_Inject
    \/ V_SendToolResult

SpecOverlap == InitOverlap /\ [][NextOverlap]_vars

(***************************************************************************)
(* SpecToolResult: one run of a subprocess that prints result events, and   *)
(* the thread that calls send_tool_result for its chat                      *)
(***************************************************************************)
NextToolResult ==
    \/ run_stream(CHAT_ID, MaxRuns)
    \/ \E outcome \in {"ok"} : Spawn(outcome)
    \/ \E line \in {L_result_s2, L_empty} : ReadStdout(line)
    \/ StdoutEof
    \/ StderrEof
    \/ ProcessExit
    \/ Consume
    \/ ConsumeResult
    \/ Teardown
    \/ send_tool_result(CHAT_ID)

SpecToolResult == InitRun /\ [][NextToolResult]_vars

(***************************************************************************)
(* SpecEdit: a few Edit and MultiEdit calls of the gate on one file         *)
(***************************************************************************)
InitEdit ==
    /\ _rules = <<>>
    /\ RulesQuiet
    /\ BrokerQuiet
    /\ GateQuiet
    /\ ProvQuiet
    /\ RunQuiet
    /\ stream = StreamIdle
    /\ repo = RepoIdle
    /\ overlap = OverlapIdle
    /\ \E file \in FileContents : fs = [FsIdle EXCEPT !.file = file]
    /\ file_monitor = MonitorIdle

NextEdit == X_MultiEdit \/ X_Edit

SpecEdit == InitEdit /\ [][NextEdit]_vars

(***************************************************************************)
(* SpecResume: several runs in a row, for two chats, of a subprocess that   *)
(* prints nothing, and the threads that call cancel, inject_event and       *)
(* send_tool_result for the first chat                                      *)
(***************************************************************************)
ResumeChats == {CHAT_ID, "c2"}

NextResume ==
    \/ \E chat_id \in ResumeChats : run_stream(chat_id, MaxResumeRuns)
    \/ \E outcome \in {"ok"} : Spawn(outcome)
    \/ StdoutEof
    \/ StderrEof
    \/ ProcessExit
    \/ Consume
    \/ Teardown
    \/ cancel_terminate(CHAT_ID, MaxResumeCancels)
    \/ cancel_put
    \/ inject_event(CHAT_ID)
    \/ send_tool_result(CHAT_ID)

SpecResume == InitRun /\ [][NextResume]_vars

\* The generator is resumed by its consumer, and the threads inside cancel and
\* the finally block are scheduled; nothing makes the subprocess exit.
FairSpecRun ==
    /\ SpecRun
    /\ WF_vars(\E outcome \in SpawnOutcomes : Spawn(outcome))
    /\ WF_vars(Consume)
    /\ WF_vars(ConsumeResult)
    /\ WF_vars(Teardown)
    /\ WF_vars(\E compacted \in BOOLEAN : Compact(compacted))
    /\ WF_vars(cancel_put)

(***************************************************************************)
(* C1: if at least one deny rule of the list matches the call, check       *)
(* returns "deny", wherever the deny rule stands relative to the allow     *)
(* rules that match the same call.                                         *)
(***************************************************************************)
DenyMatches(tool, tool_input) ==
    \E i \in 1..Len(_rules) :
        _rules[i].action = "deny" /\ _matches(_rules[i], tool, tool_input)

AllowMatches(tool, tool_input) ==
    \E i \in 1..Len(_rules) :
        _rules[i].action = "allow" /\ _matches(_rules[i], tool, tool_input)

C1_DenyWins ==
    (verdict.asked /\ DenyMatches(call.tool, call.input))
        => verdict.result = "deny"

\* an allow rule that matches stands before the deny rule that matches
C1_Witness ==
    /\ verdict.asked
    /\ verdict.result = "deny"
    /\ \E i, j \in 1..Len(_rules) :
           /\ i < j
           /\ _rules[i].action = "allow"
           /\ _matches(_rules[i], call.tool, call.input)
           /\ _rules[j].action = "deny"
           /\ _matches(_rules[j], call.tool, call.input)

(***************************************************************************)
(* C2: an executor for Write, Edit, MultiEdit or Bash runs only after the  *)
(* broker's wait handler answered "allow" for the request id of that call; *)
(* for every other decision value the tool is not executed and the reply   *)
(* is "[Tool use denied by user]" with isError = true.                     *)
(***************************************************************************)
ExecutedRids == {executed[i].rid : i \in 1..Len(executed)}

GatedReplies == {i \in 1..Len(replies) : replies[i].tool \in _EXECUTORS}

C2_ExecutorOnlyOnAllow ==
    /\ \A i \in 1..Len(executed) :
           /\ executed[i].tool \in _EXECUTORS
           /\ executed[i].rid \in DOMAIN waitLog
           /\ waitLog[executed[i].rid] = "allow"
    /\ \A i \in GatedReplies :
           IF replies[i].decision = "allow"
           THEN replies[i].rid \in ExecutedRids
           ELSE /\ replies[i].text = DeniedText
                /\ replies[i].isError
                /\ replies[i].rid \notin ExecutedRids

\* a call that no rule and no folder trust allows ran after a human's allow,
\* and a call was denied on a decision value that is neither allow nor deny
C2_Witness ==
    \/ \E i \in GatedReplies :
           /\ replies[i].kind = "result"
           /\ replies[i].tool = "Edit"
           /\ _decisions = <<>>
    \/ \E i \in GatedReplies :
           /\ replies[i].kind = "denied"
           /\ replies[i].decision = "yes"

(***************************************************************************)
(* C3: when the POST to the request endpoint fails, or the long-poll on    *)
(* wait fails, times out at transport level or returns a body without a    *)
(* decision, the client's decision is "deny" and the tool is not executed. *)
(***************************************************************************)
C3_FailClosed ==
    /\ (gate.kind = "tool" /\ (gate.postFailed \/ gate.waitFailed))
           => gate.decision = "deny"
    /\ \A i \in GatedReplies :
           (replies[i].postFailed \/ replies[i].waitFailed)
               => /\ replies[i].decision = "deny"
                  /\ replies[i].kind = "denied"
                  /\ replies[i].rid \notin ExecutedRids

\* the broker had resolved the request to allow, the answer did not arrive
C3_Witness ==
    \E i \in GatedReplies :
        /\ replies[i].waitFailed
        /\ replies[i].rid \in DOMAIN waitLog
        /\ waitLog[replies[i].rid] = "allow"
        /\ replies[i].kind = "denied"

(***************************************************************************)
(* C6: once a decision value is stored for a request id, no later decide   *)
(* or answer call changes the value stored for (and returned by wait for)  *)
(* that request id.                                                        *)
(***************************************************************************)
C6_WriteOnce ==
    [][\A rid \in (DOMAIN _decisions) \cap (DOMAIN _decisions') :
           _decisions'[rid] = _decisions[rid]]_vars

(***************************************************************************)
(* C4: whenever cancel(chat_id) returned True for a run, the events of     *)
(* that run hold exactly one 'cancelled' event, it is the last event, and   *)
(* no error, session_compacting or session_reset event follows the cancel.  *)
(* (Runs that left the loop by an exception, or because the consumer        *)
(* closed the sequence, are left aside.)                                    *)
(***************************************************************************)
IsCancelled(e) == e = CancelledEvent

C4_CancelEndsRun ==
    (run.pc = "done" /\ runs \in cancel_true /\ canc.pc = "idle"
        /\ run.exit \in {"eof", "cancel"})
    => /\ out # <<>>
       /\ IsCancelled(out[Len(out)])
       /\ Cardinality({i \in 1..Len(out) : IsCancelled(out[i])}) = 1

(***************************************************************************)
(* C5: within one run_stream call _try_compact_session is attempted at     *)
(* most once and the subprocess is spawned at most twice; a retry run       *)
(* (_is_retry true) never reaches the compaction step, whatever it printed. *)
(***************************************************************************)
C5_RecoveryDepthOne ==
    /\ used.compactions <= 1
    /\ used.spawns <= 2
    /\ run.is_retry => run.pc # "compact"

C5_Witness ==
    /\ run.is_retry
    /\ run.pc = "done"
    /\ run.exit = "eof"
    /\ ~run.got_result
    /\ MatchesTooLong(run.stdout_lines \o run.stderr_lines)
    /\ used.compactions = 1
    /\ used.spawns = 2

(***************************************************************************)
(* C7: every failure while spawning the subprocess or writing the prompt   *)
(* to its stdin ends the sequence with an event of type 'error', and        *)
(* run_stream does not raise.                                               *)
(***************************************************************************)
C7_SpawnFailureIsErrorEvent ==
    run.exit = "spawn_error"
    => /\ run.pc = "done"
       /\ out[Len(out)].obj.type = "error"

(***************************************************************************)
(* C8 (as amended): when the consuming loop handles a result event, then - *)
(* if the event reports a non-empty session id and the run has a non-empty  *)
(* chat_id - _session_map[chat_id] becomes that id and _save_sessions       *)
(* rewrites the sessions file from the new map (unless the write fails,     *)
(* which leaves the file as it was); in every other case the session map    *)
(* and the sessions file are left unchanged.                                *)
(***************************************************************************)
ResultStep ==
    /\ run.pc = "loop"
    /\ Len(run'.stdout_lines) = Len(run.stdout_lines) + 1
    /\ IsResult(run'.stdout_lines[Len(run'.stdout_lines)])

ReportedSession == SessionIdOf(run'.stdout_lines[Len(run'.stdout_lines)])

C8_ResultPersistsSessionOfChat ==
    [][ResultStep =>
        IF ReportedSession # NoSession /\ run.chat_id # ""
        THEN /\ _session_map' = Put(_session_map, run.chat_id, ReportedSession)
             /\ sessions_file' \in {SessionsDocument(_session_map', _code_folders),
                                    sessions_file}
        ELSE UNCHANGED <<_session_map, sessions_file>>]_vars

C8_Witness ==
    /\ run.got_result
    /\ run.chat_id = CHAT_ID
    /\ Get(_session_map, CHAT_ID, NoSession) = "s2"
    /\ sessions_file = SessionsDocument(_session_map, _code_folders)
    /\ sessions_file[CHAT_ID].session_id = "s2"

\* C8 as stated: a result event that reports a non-empty session id always
\* leaves that id in the session store, and one that reports none changes nothing
C8_ResultAlwaysPersists ==
    [][ResultStep =>
        IF ReportedSession # NoSession
        THEN \E c \in DOMAIN _session_map' : _session_map'[c] = ReportedSession
        ELSE UNCHANGED <<_session_map, sessions_file>>]_vars

(***************************************************************************)
(* C9: once a run for the chat has left its consuming loop - by both eofs, *)
(* by cancellation, by an exception or because the consumer closed the     *)
(* sequence - the chat eventually has no entry in the inject-queue, stdin   *)
(* and process maps, also when the subprocess does not exit on its own.     *)
(***************************************************************************)
Registered(chat_id) ==
    chat_id \in (_inject_queues \cup _stdin_map \cup _process_map)

C9_RegistrationRemoved ==
    (run.pc = "finally" /\ run.chat_id = CHAT_ID) ~> ~Registered(CHAT_ID)

(***************************************************************************)
(* C10: the events the consuming loop has emitted are, in order, the       *)
(* events of the items taken so far, and the items taken so far are the     *)
(* first items put on the merge queue, whatever their source: a stdout      *)
(* line as it is, a stderr line as an error event, an injected line as it   *)
(* is, the cancel sentinel as the 'cancelled' event.                        *)
(***************************************************************************)
EventOf(item) ==
    CASE item[1] = "cancel" -> <<CancelledEvent>>
      [] item[1] \in {"out", "inject"} /\ item[2].text # ""
            /\ json_loads(item[2]) # "other" -> <<item[2]>>
      [] item[1] = "inject" /\ json_loads(item[2]) = "other" -> <<item[2]>>
      [] item[1] = "err" /\ item[2].text # "" -> <<StderrEvent(item[2])>>
      [] OTHER -> <<>>

RECURSIVE EventsOf(_)
EventsOf(items) ==
    IF items = <<>> THEN <<>> ELSE EventOf(Head(items)) \o EventsOf(Tail(items))

Taken == SubSeq(enq, 1, Len(enq) - Len(merged_q))

C10_ArrivalOrder ==
    run.pc \in {"loop", "finally"}
    => /\ enq = Taken \o merged_q
       /\ SubSeq(out, run.base + 1, Len(out)) = EventsOf(Taken)

C10_Witness ==
    /\ run.pc = "loop"
    /\ SubSeq(out, run.base + 1, Len(out))
         = <<StderrEvent(TextLine("warn")), JsonDumps(InjectedEvent), L_result_s2>>

(***************************************************************************)
(* C11: a wait or a decide on a request id the broker does not hold is      *)
(* answered 404, a decide with a value other than allow/deny is answered    *)
(* 400, a request, decide, question or answer without request_id is         *)
(* answered 400; a call answered 400 or 404 leaves the pending, decision    *)
(* and signal maps as they were and puts nothing on the merge queue.        *)
(***************************************************************************)
C11_RejectionsChangeNothing ==
    [][feCalls' = feCalls + 1 =>
        /\ feResp'.rid = MissingRid => feResp'.status = 400
        /\ (feResp'.op = "decide" /\ feResp'.value \notin {"allow", "deny"})
              => feResp'.status = 400
        /\ (/\ feResp'.op \in {"wait", "decide"}
            /\ feResp'.rid # MissingRid
            /\ feResp'.rid \notin DOMAIN _events
            /\ feResp'.op = "decide" => feResp'.value \in {"allow", "deny"})
              => feResp'.status = 404
        /\ feResp'.status \in {400, 404}
              => UNCHANGED <<_pending, _decisions, _events, merged_q>>]_vars

C11_Witness ==
    /\ feResp.op = "decide"
    /\ feResp.status = 404
    /\ feResp.value = "allow"
    /\ DOMAIN _pending # {}
    /\ feCalls = MaxFeCalls

(***************************************************************************)
(* C12: a request is registered and not resolved by the request operation; *)
(* the one frontend call made is a decide(X, d) with d in {allow, deny}     *)
(* that succeeded before wait(X) was called; then the wait handler finds    *)
(* the signal fired, does not wait for its bound, and answers d.            *)
(***************************************************************************)
ResolvedByRequest(tool, inp) ==
    RuleAutoAllow(tool, inp) \/ FolderAutoAllow(CHAT_ID, tool, inp)

DecidedBeforeWait ==
    /\ gate.kind = "tool"
    /\ gate.pc \in {"waiting", "decided"}
    /\ ~ResolvedByRequest(gate.tool, gate.input)
    /\ gate.preset # "none"
    /\ feCalls = 1
    /\ fe.pc = "idle"
    /\ feResp = FeCall("decide", gate.rid, gate.preset, 200)

C12_DecideBeforeWait ==
    DecidedBeforeWait =>
        /\ gate.preset \in {"allow", "deny"}
        /\ gate.pc = "waiting" => /\ Get(_events, gate.rid, FALSE)
                                  /\ WaitDecision(gate.rid) = gate.preset
        /\ gate.rid \in DOMAIN waitLog => waitLog[gate.rid] = gate.preset
        /\ gate.pc = "decided" => ~gate.timedOut
        /\ (gate.pc = "decided" /\ ~gate.waitFailed) => gate.decision = gate.preset

C12_Witness ==
    /\ DecidedBeforeWait
    /\ gate.pc = "decided"
    /\ ~gate.waitFailed
    /\ gate.preset = "allow"
    /\ gate.decision = "allow"
    /\ waitLog[gate.rid] = "allow"

(***************************************************************************)
(* C13: a wait(X) whose bound passes with no decision stored answers       *)
(* 'deny'; and once a wait(X) has returned, X has no entry in the pending,  *)
(* decision and signal maps.                                                *)
(***************************************************************************)
C13_WaitPurges ==
    /\ (gate.pc = "decided" /\ gate.timedOut /\ gate.kind = "tool" /\ ~gate.waitFailed)
          => gate.decision = "deny"
    /\ \A rid \in DOMAIN waitLog :
          /\ rid \notin DOMAIN _pending
          /\ rid \notin DOMAIN _decisions
          /\ rid \notin DOMAIN _events

(***************************************************************************)
(* C14: as long as the items taken from the merge queue do not hold both   *)
(* eof markers and hold no cancel sentinel, the consuming loop goes on     *)
(* (unless an exception or the consumer's close ends it); it ends when the  *)
(* second eof marker is taken, in either order of the two and whatever      *)
(* stdout, stderr and injected items came between, and then no 'cancelled' *)
(* event has been emitted.                                                  *)
(***************************************************************************)
HasKind(items, kind) == \E i \in 1..Len(items) : items[i][1] = kind

BothEofs(items) == HasKind(items, "out_eof") /\ HasKind(items, "err_eof")

C14_LoopEndsAtSecondEof ==
    /\ run.pc = "loop" => ~BothEofs(Taken) /\ ~HasKind(Taken, "cancel")
    /\ (run.pc = "finally" /\ run.exit = "eof")
          => /\ BothEofs(Taken)
             /\ ~HasKind(Taken, "cancel")
             /\ Taken[Len(Taken)][1] \in {"out_eof", "err_eof"}
             /\ \A i \in (run.base + 1)..Len(out) : ~IsCancelled(out[i])
    /\ (run.pc = "finally" /\ run.exit \notin {"exception", "closed"}
          /\ ~HasKind(Taken, "cancel"))
          => run.exit = "eof"

C14_Witness ==
    /\ run.pc = "finally"
    /\ run.exit = "eof"
    /\ Taken[1][1] = "err_eof"
    /\ HasKind(Taken, "inject")
    /\ HasKind(Taken, "out")
    /\ Taken[Len(Taken)][1] = "out_eof"

(***************************************************************************)
(* C15: a Write, Edit or MultiEdit request whose file_path lies inside the *)
(* chat's registered folder is resolved by the request operation: while no  *)
(* frontend call was made, 'allow' is stored and the signal is fired as     *)
(* soon as the request is registered, no permission_request event for it    *)
(* is on the merge queue, and its wait answers 'allow'.                     *)
(***************************************************************************)
RECURSIVE Components(_, _, _)
\* the names between the separators of a path
Components(path, name, names) ==
    IF path = <<>> THEN (IF name = <<>> THEN names ELSE Append(names, name))
    ELSE IF Head(path) = SL
         THEN Components(Tail(path), <<>>,
                         IF name = <<>> THEN names ELSE Append(names, name))
         ELSE Components(Tail(path), Append(name, Head(path)), names)

Inside(path, folder) ==
    LET p == Components(path, <<>>, <<>>)
        f == Components(folder, <<>>, <<>>)
    IN  /\ f # <<>>
        /\ Len(p) > Len(f)
        /\ SubSeq(p, 1, Len(f)) = f

InsideCall ==
    /\ gate.kind = "tool"
    /\ gate.tool \in FileTools
    /\ Inside(gate.input.file_path, get_code_folder(CHAT_ID))

AsksFor(item, request_id) ==
    /\ item[1] = "inject"
    /\ item[2].obj.type = "permission_request"
    /\ item[2].obj.request_id = request_id

FirstTokenBase(command) ==
    LET sp == ShlexSplit(Strip(command))
    IN  IF sp.ok /\ sp.parts # <<>> THEN Basename(sp.parts[1]) ELSE <<>>

DangerousCall ==
    /\ call.tool = "Bash"
    /\ FirstTokenBase(call.input.command) \in DANGEROUS

HasPrefixDeny(base) ==
    \E i \in 1..Len(_rules) :
        /\ _rules[i].tool = "Bash"
        /\ _rules[i].match_type = "prefix"
        /\ _rules[i].action = "deny"
        /\ _rules[i].pattern = base

C16_DangerousStillDenied ==
    DangerousCall =>
        /\ suggest_bash_pattern(call.input.command) = NoSuggestion
        /\ (verdict.asked /\ HasPrefixDeny(FirstTokenBase(call.input.command)))
              => verdict.result = "deny"

\* /bin/rm x is denied by the default rule for rm, and has no suggestion
C16_Witness ==
    /\ DangerousCall
    /\ call.input.command = W_bin_rm
    /\ verdict.asked
    /\ HasPrefixDeny(W_rm)
    /\ verdict.result = "deny"
    /\ ~suggest_bash_pattern(call.input.command).some

(***************************************************************************)
(* C17: check answers "deny" exactly when some deny rule matches the call,  *)
(* "allow" exactly when no deny rule and some allow rule matches it, and    *)
(* "ask" exactly when no rule matches it; with the default rules a Bash     *)
(* command with base name rm is denied, one with base name git is allowed,  *)
(* and one whose base name stands in no rule is asked about.                *)
(***************************************************************************)
InSomeRule(base) ==
    \E i \in 1..Len(_DEFAULT_RULES) :
        _DEFAULT_RULES[i].tool = "Bash" /\ _DEFAULT_RULES[i].pattern = base

DefaultVerdict(command) ==
    check(WithIds(_DEFAULT_RULES), "Bash", ToolInput(command, <<>>, <<>>))

C17_CheckVerdict ==
    /\ verdict.asked =>
          /\ verdict.result = "deny" <=> DenyMatches(call.tool, call.input)
          /\ verdict.result = "allow" <=>
                 (~DenyMatches(call.tool, call.input) /\ AllowMatches(call.tool, call.input))
          /\ verdict.result = "ask" <=>
                 (~DenyMatches(call.tool, call.input) /\ ~AllowMatches(call.tool, call.input))
    /\ (verdict.asked /\ call.tool = "Bash" /\ _rules = WithIds(_DEFAULT_RULES)) =>
          LET base == FirstTokenBase(call.input.command)
          IN  /\ base = W_rm => verdict.result = "deny"
              /\ base = W_git => verdict.result = "allow"
              /\ (base # <<>> /\ ~InSomeRule(base)) => verdict.result = "ask"
    /\ DefaultVerdict(W_rm_rf) = "deny"
    /\ DefaultVerdict(W_git_status) = "allow"
    /\ DefaultVerdict(W_unknownbinary) = "ask"

\* the default rules are asked about a command no rule names
C17_Witness ==
    /\ verdict.asked
    /\ _rules = WithIds(_DEFAULT_RULES)
    /\ call.tool = "Bash"
    /\ call.input.command = W_unknownbinary
    /\ verdict.result = "ask"
    /\ ~DenyMatches(call.tool, call.input)
    /\ ~AllowMatches(call.tool, call.input)

(***************************************************************************)
(* C18: the run closes the subprocess's stdin inside its loop only in the   *)
(* handler of a result event, and only after that handler has stored the    *)
(* session id the event carries for the chat (the store is followed by the  *)
(* save in the same step, and the closing step writes neither the map nor   *)
(* the file); before the first result event stdin is open as long as the    *)
(* run has not reached its teardown.                                        *)
(***************************************************************************)
ClosesStdin == ~proc.stdin_closed /\ proc'.stdin_closed

LastLine == run.stdout_lines[Len(run.stdout_lines)]

C18_StoreBeforeClose ==
    /\ [](((run.pc \in {"loop", "result"}) /\ proc.stdin_closed) => run.got_result)
    /\ [][(ClosesStdin /\ run.pc \in {"loop", "result"}) =>
            /\ run.got_result
            /\ IsResult(LastLine)
            /\ StoresSession(SessionIdOf(LastLine), run.chat_id)
                  => Get(_session_map, run.chat_id, NoSession) = SessionIdOf(LastLine)
            /\ UNCHANGED <<_session_map, sessions_file>>]_vars

\* the session is stored and saved, stdin is still open
C18_Witness ==
    /\ run.pc = "result"
    /\ run.chat_id = CHAT_ID
    /\ ~proc.stdin_closed
    /\ Get(_session_map, CHAT_ID, NoSession) = "s2"
    /\ sessions_file = SessionsDocument(_session_map, _code_folders)

(***************************************************************************)
(* C19: a run of a chat that was cancelled leaves a prompt remembered for   *)
(* that chat; a run_stream call for a chat with a remembered prompt gets    *)
(* that prompt prepended as context and discards it, a call for a chat      *)
(* without one gets its own prompt alone; no call touches what is           *)
(* remembered for another chat, and nothing else changes what is remembered.*)
(***************************************************************************)
RunStreamStep == runs' = runs + 1

CancelledRunEnds ==
    /\ run.pc = "finally"
    /\ run'.pc # "finally"
    /\ run.was_cancelled
    /\ run.chat_id # ""

Reported(event) == \E i \in 1..Len(out) : out[i] = event

C20_RetrySession ==
    /\ [](used.compactions <= 1)
    /\ []((run.is_retry /\ run.pc = "spawn") =>
            /\ Reported(CompactedEvent) =>
                  /\ run.claude_session # NoSession
                  /\ Get(_session_map, run.chat_id, NoSession) = run.claude_session
            /\ Reported(ResetEvent) =>
                  /\ run.claude_session = NoSession
                  /\ run.chat_id \notin DOMAIN _session_map)
    /\ [][(run.pc = "compact" /\ run'.pc # "compact") =>
            /\ run'.pc = "spawn"
            /\ run'.is_retry
            /\ run'.chat_id = run.chat_id
            /\ IF out'[Len(out) + 1] = CompactedEvent
               THEN /\ UNCHANGED <<_session_map, sessions_file>>
                    /\ run'.claude_session = run.claude_session
                    /\ run.claude_session # NoSession
               ELSE /\ out'[Len(out) + 1] = ResetEvent
                    /\ _session_map' = Pop(_session_map, run.chat_id)
                    /\ sessions_file' \in {SessionsDocument(_session_map', _code_folders),
                                           sessions_file}
                    /\ run'.claude_session = NoSession]_vars

\* the compaction failed: the retry waits to be spawned, its chat has no session
C20_Witness ==
    /\ run.is_retry
    /\ run.pc = "spawn"
    /\ run.chat_id = CHAT_ID
    /\ Reported(ResetEvent)
    /\ CHAT_ID \notin DOMAIN _session_map
    /\ sessions_file = SessionsDocument(_session_map, _code_folders)

(***************************************************************************)
(* C21: registering a question stores no decision and leaves its signal     *)
(* unfired, and offers one user_question event to the chat's stream; the    *)
(* signal of a question is fired only by a frontend call for its id, and    *)
(* the wait handler of a question returns either with the signal unfired    *)
(* (the 300 s bound) or with the value such a call stored.                  *)
(***************************************************************************)
IsQuestion == gate.kind = "question"

QuestionRegisters ==
    /\ IsQuestion
    /\ gate.pc = "post"
    /\ gate.rid \in DOMAIN _pending'

UserQuestionItem(request_id) ==
    <<"inject", JsonDumps([type |-> "user_question", request_id |-> request_id,
                           questions |-> <<"q">>])>>

QuestionWaitReturns ==
    /\ IsQuestion
    /\ gate.rid \notin DOMAIN waitLog
    /\ gate.rid \in DOMAIN waitLog'

CancelCalled == used'.cancel = used.cancel + 1

InjectCalled == used'.inject = used.inject + 1

ToolResultCalled == used'.tool_results = used.tool_results + 1

C22_NoRunFailsClosed ==
    [][~Registered(CHAT_ID) =>
        /\ CancelCalled =>
              /\ ~CancelFinds(CHAT_ID)
              /\ UNCHANGED <<canc, cancel_true, proc, merged_q, enq, run, out>>
        /\ InjectCalled =>
              /\ ~InjectAccepted(CHAT_ID)
              /\ UNCHANGED <<canc, cancel_true, proc, merged_q, enq, run, out>>
        /\ ToolResultCalled =>
              /\ \A pipe_ok \in BOOLEAN : SendToolResult(CHAT_ID, pipe_ok) = "false"
              /\ UNCHANGED <<canc, cancel_true, proc, merged_q, enq, run, out>>]_vars

\* the three calls were made for c1, the live run of c2 is untouched
C22_Witness ==
    /\ runs = 1
    /\ run.chat_id = "c2"
    /\ run.pc = "loop"
    /\ proc.state = "running"
    /\ used.cancel = 1
    /\ used.inject = 1
    /\ used.tool_results = 1
    /\ ~proc.signalled
    /\ proc.stdin_writes = 0
    /\ merged_q = <<>>
    /\ cancel_true = {}
    /\ canc = CancelIdle

(***************************************************************************)
(* C23: every tools/call request whose executor ran has exactly one reply,  *)
(* and that reply is a result, never a JSON-RPC error: a result with the    *)
(* error text and isError when the executor raised, a result whose text     *)
(* carries the exit code when the shell exited non-zero; after it the       *)
(* client is back at the head of its loop, and every request read so far    *)
(* has its one reply.                                                       *)
(***************************************************************************)
RepliesTo(request_id) == {i \in 1..Len(replies) : replies[i].rid = request_id}

C23_ExecFailureIsResult ==
    /\ \A e \in 1..Len(executed) :
          /\ Cardinality(RepliesTo(executed[e].rid)) = 1
          /\ \A i \in RepliesTo(executed[e].rid) :
                /\ replies[i].kind \in {"result", "exec_error"}
                /\ executed[e].outcome = "raised" =>
                      /\ replies[i].text = "Error"
                      /\ replies[i].isError
                /\ executed[e].outcome = "nonzero" =>
                      /\ replies[i].text = "[exit N]"
                      /\ replies[i].kind = "result"
                      /\ ~replies[i].isError
    /\ Len(replies) = IF gate.pc = "idle" THEN gateCalls ELSE gateCalls - 1

\* an Edit whose executor raised was answered, and the next request was served
C23_Witness ==
    /\ Len(replies) = 2
    /\ Len(executed) = 2
    /\ executed[1].outcome = "raised"
    /\ replies[1].kind = "exec_error"
    /\ executed[2].tool = "Bash"
    /\ executed[2].outcome = "nonzero"
    /\ replies[2].rid = executed[2].rid
    /\ replies[2].text = "[exit N]"
    /\ gate.pc = "idle"

(***************************************************************************)
(* C24: stream_run emits the status event first, then one event per line    *)
(* the provider yielded, in the provider's order - the line itself when it  *)
(* parses as JSON, a text event holding it otherwise - and, once the        *)
(* provider is exhausted, a done event as the last one if the provider      *)
(* returned, or an error event and no done event if it raised.              *)
(***************************************************************************)
ParsesAsJson(line) == json_loads(line) \in {"dict", "other"}

ExpectedFor(line) ==
    IF ParsesAsJson(line) THEN [data |-> line]
    ELSE [data |-> JsonDumps([type |-> "text", content |-> line.text])]

IsSseOf(e, type) == e.data.text = "json" /\ e.data.obj.type = type /\ e.data \notin ProviderLines

C24_StreamOrder ==
    /\ stream.emitted # <<>> => stream.emitted[1] = [data |-> StatusEvent]
    /\ stream.pc \in {"lines", "last", "finished", "closed"} =>
          /\ Len(stream.emitted) >= 1 + stream.pos
          /\ \A i \in 1..stream.pos :
                stream.emitted[i + 1] = ExpectedFor(stream.script[i])
    /\ stream.pc = "finished" =>
          /\ stream.pos = Len(stream.script)
          /\ Len(stream.emitted) = Len(stream.script) + 2
          /\ LET last == stream.emitted[Len(stream.emitted)]
             IN  IF stream.ending = "return"
                 THEN /\ IsSseOf(last, "done")
                      /\ \A i \in 1..Len(stream.emitted) :
                            ~IsSseOf(stream.emitted[i], "error")
                 ELSE /\ IsSseOf(last, "error")
                      /\ \A i \in 1..Len(stream.emitted) :
                            ~IsSseOf(stream.emitted[i], "done")

\* a JSON list and a text line were passed on, then the provider returned
C24_Witness ==
    /\ stream.pc = "finished"
    /\ stream.script = <<L_list, TextLine("warn")>>
    /\ stream.ending = "return"
    /\ stream.emitted = <<Sse(StatusEvent), Sse(L_list), Sse(TextEvent(TextLine("warn"))),
                          Sse(DoneEvent)>>

(***************************************************************************)
(* C25: append_message on a valid chat id with no stored chat creates a     *)
(* chat with that id holding exactly that one message, each later           *)
(* append_message adds exactly one message at the end, list_chats returns   *)
(* exactly one entry per stored chat that has at least one message, and     *)
(* append_message stores nothing when the role is not user/assistant or     *)
(* when the chat id is not a valid one.                                     *)
(***************************************************************************)
StoredChat(files, chat_id) == \E p \in RepoPaths : p = chat_id /\ files[p].kind = "json"

MessagesOf(files, chat_id) ==
    IF StoredChat(files, chat_id) THEN files[chat_id].data.messages ELSE <<>>

\* the chat chat_id holds exactly the messages msgs, and no other file changed
HoldsAfterAppend(chat_id, msgs) ==
    /\ ~repo.last.raised
    /\ StoredChat(repo.files, chat_id)
    /\ \E p \in RepoPaths :
          /\ p = chat_id
          /\ repo.files[p].data.chat_id = chat_id
          /\ repo.files[p].data.messages = msgs
          /\ \A q \in RepoPaths \ {p} : repo.files[q] = repo.last.before[q]

StoresNothing == repo.last.raised /\ repo.files = repo.last.before

ListedOncePerChat ==
    LET with == {p \in RepoPaths : Len(MessagesOf(repo.last.before, p)) > 0}
        got == repo.last.returned
    IN  /\ Len(got) = Cardinality(with)
        /\ \A p \in with : Cardinality({i \in 1..Len(got) : got[i].chat_id = p}) = 1
        /\ \A i \in 1..Len(got) :
              got[i].message_count = Len(MessagesOf(repo.last.before, got[i].chat_id))

C25_Repository ==
    /\ repo.last.op = "append" =>
          IF repo.last.role \notin {"user", "assistant"} THEN StoresNothing
          ELSE IF repo.last.chat_id \notin RepoPaths THEN StoresNothing
          ELSE HoldsAfterAppend(repo.last.chat_id,
                                Append(MessagesOf(repo.last.before, repo.last.chat_id),
                                       Message(repo.last.role, repo.last.content)))
    /\ repo.last.op = "list" => ListedOncePerChat

\* as stated, for every chat id: the chat is created whenever none is stored
C25_AsClaimed ==
    /\ repo.last.op = "append" =>
          IF repo.last.role \notin {"user", "assistant"} THEN StoresNothing
          ELSE HoldsAfterAppend(repo.last.chat_id,
                                Append(MessagesOf(repo.last.before, repo.last.chat_id),
                                       Message(repo.last.role, repo.last.content)))
    /\ repo.last.op = "list" => ListedOncePerChat

\* a second message was appended to a stored chat while another chat is stored
C25_Witness ==
    /\ repo.last.op = "append"
    /\ ~repo.last.raised
    /\ Len(MessagesOf(repo.last.before, repo.last.chat_id)) = 1
    /\ Len(MessagesOf(repo.files, repo.last.chat_id)) = 2
    /\ \E q \in RepoPaths \ {repo.last.chat_id} : StoredChat(repo.files, q)


(***************************************************************************)
(* C26: the request operation resolves a request to allow exactly when the  *)
(* rule verdict is allow or the tool is Write/Edit/MultiEdit with a         *)
(* file_path under the chat's folder; in every other case it stores no     *)
(* decision, leaves the request pending with its signal unfired, and        *)
(* offers exactly one permission_request event to the chat's live stream;   *)
(* a deny verdict is never turned into a stored deny.                       *)
(***************************************************************************)
\* the step in which the request handler ran for the gate's tool call
RequestHandled ==
    /\ gate.pc = "post"
    /\ gate.kind = "tool"
    /\ gate.rid \notin DOMAIN _pending
    /\ gate.rid \in DOMAIN _pending'

AutoAllowCase ==
    \/ check(_rules, gate.tool, gate.input) = "allow"
    \/ gate.tool \in FileTools /\ Inside(gate.input.file_path, get_code_folder(CHAT_ID))

\* what inject_event leaves on the queue: one event when the chat has a live
\* stream, nothing when it has none
OfferedOnce ==
    IF CHAT_ID \in _inject_queues
    THEN /\ Len(merged_q') = Len(merged_q) + 1
         /\ SubSeq(merged_q', 1, Len(merged_q)) = merged_q
         /\ AsksFor(merged_q'[Len(merged_q')], gate.rid)
    ELSE merged_q' = merged_q

CompactionConditions(r, cancelled) ==
    /\ ~r.got_result
    /\ ~r.is_retry
    /\ r.chat_id # ""
    /\ r.claude_session # NoSession
    /\ ~cancelled
    /\ MatchesTooLong(r.stdout_lines \o r.stderr_lines)

\* the post-processing leaves the run finished, with no compaction, no spawn
\* and the session map as it was
EndsWithoutRecovery ==
    /\ run'.pc \in {"done", "raised"}
    /\ used'.compactions = used.compactions
    /\ used'.spawns = used.spawns
    /\ _session_map' = _session_map

PostProcessed == run.pc = "finally" /\ run'.pc # "finally"

\* cancelled: a cancel call for the run returned True
C27_CompactionGuard ==
    /\ [](run.pc = "compact" => CompactionConditions(run, runs \in cancel_true))
    /\ [][(PostProcessed /\ ~CompactionConditions(run, runs \in cancel_true))
            => EndsWithoutRecovery]_vars

\* cancelled: the consuming loop took the cancel sentinel
CompactionGuardOfLoop ==
    /\ [](run.pc = "compact" => CompactionConditions(run, run.was_cancelled))
    /\ [][(PostProcessed /\ ~CompactionConditions(run, run.was_cancelled))
            => EndsWithoutRecovery]_vars


(***************************************************************************)
(* C28: a gated request whose call matches a deny rule is never resolved to *)
(* allow unless a human decided allow: while the frontend has made no call, *)
(* no 'allow' is stored for it and its wait does not answer 'allow', also   *)
(* when the call is a Write/Edit/MultiEdit inside the chat's folder.        *)
(***************************************************************************)
DenyRuleCall ==
    /\ gate.kind = "tool"
    /\ check(_rules, gate.tool, gate.input) = "deny"

C28_DenyNeverAutoAllowed ==
    (DenyRuleCall /\ feCalls = 0) =>
        /\ Get(_decisions, gate.rid, "none") # "allow"
        /\ gate.rid \in DOMAIN waitLog => waitLog[gate.rid] # "allow"
        /\ \A i \in 1..Len(executed) : executed[i].rid # gate.rid


(***************************************************************************)
(* C29: no decision is lost when decide(X, d) races with a wait(X) whose    *)
(* bound expires: if the decide call returns success, the waiter of X       *)
(* received d, and never the timeout default.                               *)
(***************************************************************************)
\* the wait of the gate's request woke up on its bound and has answered
WaitExpired ==
    /\ gate.pc = "decided"
    /\ gate.kind = "tool"
    /\ gate.timedOut
    /\ gate.rid \in DOMAIN waitLog

DecideSucceeded(request_id) ==
    /\ feResp.op = "decide"
    /\ feResp.rid = request_id
    /\ feResp.status = 200

C29_NoLostDecision ==
    (WaitExpired /\ DecideSucceeded(gate.rid)) => waitLog[gate.rid] = feResp.value


(***************************************************************************)
(* C30: when two runs for one chat_id overlap, the registration of the run  *)
(* that registers second replaces the first's entries, and the teardown of  *)
(* the run that ends first leaves the chat without an entry in any of the   *)
(* three maps while the other run is still in its loop; from then on        *)
(* cancel, inject_event and send_tool_result for the chat return false.     *)
(***************************************************************************)
BothRegistered == \A i \in OvRuns : overlap.r[i].pc = "loop"

\* run i left the loop while run j was registered, and has finished its
\* teardown; run j is still in its loop
Clobbered(i, j) ==
    /\ i # j
    /\ overlap.r[i].pc = "done"
    /\ overlap.r[i].overlapped
    /\ overlap.r[j].pc = "loop"

SomeClobbered == \E i \in OvRuns, j \in OvRuns : Clobbered(i, j)

C30_OverlapClobbers ==
    /\ []((BothRegistered /\ ~overlap.interleaved) =>
            /\ overlap.q = overlap.order[2]
            /\ overlap.stdin = overlap.order[2]
            /\ overlap.process = overlap.order[2])
    /\ [](SomeClobbered =>
            /\ overlap.q = NoEntry
            /\ overlap.stdin = NoEntry
            /\ overlap.process = NoEntry)
    /\ [][(SomeClobbered /\ overlap'.calls # overlap.calls)
            => overlap'.last.returned = "false"]_vars

\* the first run ended first, after the second had registered; the second is
\* live in its loop with a running subprocess, and a cancel returned false
C30_Witness ==
    /\ Clobbered(1, 2)
    /\ overlap.order = <<1, 2>>
    /\ overlap.r[2].alive
    /\ overlap.last = OvCalled("cancel", "false")


(***************************************************************************)
(* C31: every event that inject_event accepted (returned true for) is       *)
(* emitted exactly once in the run's output: when the first run of a call,  *)
(* ended on the eof markers or on the cancel sentinel, is over, the output  *)
(* holds one copy of each injected event that was put on its queue.         *)
(***************************************************************************)
InjectsAccepted == {i \in 1..Len(enq) : enq[i][1] = "inject"}

InjectsEmitted == {i \in 1..Len(out) : out[i] = JsonDumps(InjectedEvent)}

C31_InjectedEmitted ==
    (run.pc = "done" /\ run.exit \in {"eof", "cancel"} /\ used.spawns = 1)
        => Cardinality(InjectsEmitted) = Cardinality(InjectsAccepted)


(***************************************************************************)
(* C32: send_tool_result never raises, and returns true only when the line  *)
(* was written to an open stdin; while the chat's stdin is registered but   *)
(* closed (after the result event, before teardown) it returns false.       *)
(***************************************************************************)
C32_ToolResultFailsClosed ==
    [][ToolResultCalled =>
         /\ used'.tool_returned \in {"true", "false"}
         /\ used'.tool_returned = "true" =>
               /\ CHAT_ID \in _stdin_map
               /\ ~proc.stdin_closed
               /\ proc'.stdin_writes = proc.stdin_writes + 1
         /\ (CHAT_ID \in _stdin_map /\ proc.stdin_closed) =>
               used'.tool_returned = "false"]_vars


(***************************************************************************)
(* C33: after a cancel call for the run returned true, the run terminates:  *)
(* it leaves its loop, waits for or kills the subprocess and completes its  *)
(* teardown, also when the subprocess ignores the signal and does not exit  *)
(* (for a consumer that keeps reading the run's events).                    *)
(***************************************************************************)
CancelReturnedTrue == runs \in cancel_true /\ run.chat_id = CHAT_ID

\* the consumer gave the sequence up: that run is left to C9
ConsumerClosed == run.exit = "closed"

C33_CancelTerminates ==
    CancelReturnedTrue
        ~> (ConsumerClosed \/ (run.pc \in {"done", "raised"} /\ ~Registered(CHAT_ID)))


(***************************************************************************)
(* C34: in a run that is not cancelled and ends on the eof markers, every   *)
(* line the stderr reader put on the queue, an empty one included, has      *)
(* produced exactly one error event in the output, in queue order.          *)
(***************************************************************************)
StderrItems == SelectSeq(enq, LAMBDA item : item[1] = "err")

StderrEvents == SelectSeq(out, LAMBDA e : \E line \in StderrLines : e = StderrEvent(line))

\* the first run of a call is over: not cancelled, ended on the eof markers
FirstRunEndedOnEof ==
    /\ run.pc = "done"
    /\ run.exit = "eof"
    /\ used.spawns = 1
    /\ runs \notin cancel_true
    /\ ~proc.signalled

NonEmptyStderrItems == SelectSeq(StderrItems, LAMBDA item : item[2].text # "")

\* the same for the lines that are not empty
StderrSurfacedUnlessEmpty ==
    FirstRunEndedOnEof
        => StderrEvents = [i \in 1..Len(NonEmptyStderrItems) |->
                              StderrEvent(NonEmptyStderrItems[i][2])]

C34_StderrSurfaced ==
    FirstRunEndedOnEof
        => StderrEvents = [i \in 1..Len(StderrItems) |-> StderrEvent(StderrItems[i][2])]


(***************************************************************************)
(* C35: MultiEdit applies its edits in list order, each to the result of    *)
(* the previous ones; if the old_string of some edit is not found at its    *)
(* turn, an error is reported and the file is exactly as before the call;   *)
(* the file is changed only when every edit applied.                        *)
(***************************************************************************)
RECURSIVE AfterEdits(_, _, _)
\* the content after the first k edits, each applied to the one before
AfterEdits(before, edits, k) ==
    IF k = 0 THEN before
    ELSE ReplaceFirst(AfterEdits(before, edits, k - 1),
                      edits[k].old_string, edits[k].new_string)

\* the old_string of edit k is found at its turn
FoundAtTurn(before, edits, k) ==
    Contains(AfterEdits(before, edits, k - 1), edits[k].old_string)

C35_MultiEditAtomic ==
    fs.last.op = "MultiEdit" =>
        LET before == fs.last.before
            edits == fs.last.edits
        IN  IF \A k \in 1..Len(edits) : FoundAtTurn(before, edits, k)
            THEN ~fs.last.raised /\ fs.file = AfterEdits(before, edits, Len(edits))
            ELSE fs.last.raised /\ fs.file = before

\* the first edit applied and changed the content, the second was not found
C35_Witness ==
    /\ fs.last.op = "MultiEdit"
    /\ Len(fs.last.edits) = 2
    /\ FoundAtTurn(fs.last.before, fs.last.edits, 1)
    /\ AfterEdits(fs.last.before, fs.last.edits, 1) # fs.last.before
    /\ ~FoundAtTurn(fs.last.before, fs.last.edits, 2)
    /\ fs.last.raised
    /\ fs.file = fs.last.before

(***************************************************************************)
(* SpecSessions: the session map and the code folders of a provider, the   *)
(* sessions file it writes, and a provider re-created from that file       *)
(***************************************************************************)
SessionChats == {CHAT_ID, "c2"}

SessionIds == {"s1", "s2", "s3"}

W_v == <<SL, "v">>

\* the path argument of set_code_folder: a folder, or the empty string
FolderArgs == {W_w, W_v, <<>>}

\* _load_sessions: the two maps built from the document of the sessions file;
\* a bare string is a session id, a dict gives session_id and, when it is not
\* empty, code_folder
_load_sessions(document) ==
    [session_map |-> [c \in DOMAIN document |-> document[c].session_id],
     code_folders |->
        [c \in {d \in DOMAIN document :
                    ~document[d].legacy /\ document[d].code_folder # <<>>}
            |-> document[c].code_folder]]

SessionsUnchanged ==
    UNCHANGED <<_inject_queues, merged_q, _stdin_map, _process_map,
                _cancelled_prompts, run, proc, out, enq, canc, cancel_true,
                runs, used, svcVars, rulesVars, brokerVars, gateVars>>

\* set_code_folder(chat_id, path): set or pop the folder, then _save_sessions()
set_code_folder(chat_id, path) ==
    /\ _code_folders' = IF path # <<>> THEN Put(_code_folders, chat_id, path)
                                       ELSE Pop(_code_folders, chat_id)
    /\ sessions_file' = SessionsDocument(_session_map, _code_folders')
    /\ UNCHANGED _session_map
    /\ SessionsUnchanged

\* the init event of a run: the session id is stored, then _save_sessions()
P_StoreSession(chat_id, sid) ==
    /\ Get(_session_map, chat_id, NoSession) # sid
    /\ _session_map' = Put(_session_map, chat_id, sid)
    /\ sessions_file' = SessionsDocument(_session_map', _code_folders)
    /\ UNCHANGED _code_folders
    /\ SessionsUnchanged

\* __init__ of a new provider on the same sessions file: empty maps, then
\* _load_sessions()
P_Recreate ==
    /\ _session_map' = _load_sessions(sessions_file).session_map
    /\ _code_folders' = _load_sessions(sessions_file).code_folders
    /\ <<_session_map', _code_folders'>> # <<_session_map, _code_folders>>
    /\ UNCHANGED sessions_file
    /\ SessionsUnchanged

InitSessions ==
    /\ SvcQuiet
    /\ _rules = <<>>
    /\ RulesQuiet
    /\ BrokerQuiet
    /\ GateQuiet
    /\ _inject_queues = {}
    /\ merged_q = <<>>
    /\ \E document \in {<<>>,
                        [c \in {CHAT_ID} |->
                            [session_id |-> "s1", code_folder |-> <<>>, legacy |-> TRUE]]} :
          /\ sessions_file = document
          /\ _session_map = _load_sessions(document).session_map
          /\ _code_folders = _load_sessions(document).code_folders
    /\ _stdin_map = {}
    /\ _process_map = {}
    /\ _cancelled_prompts = <<>>
    /\ run = RunIdle
    /\ proc = NoProc
    /\ out = <<>>
    /\ enq = <<>>
    /\ canc = CancelIdle
    /\ cancel_true = {}
    /\ runs = 0
    /\ used = NoUse

NextSessions ==
    \/ \E chat_id \in SessionChats, path \in FolderArgs : set_code_folder(chat_id, path)
    \/ \E chat_id \in SessionChats, sid \in SessionIds : P_StoreSession(chat_id, sid)
    \/ P_Recreate

SpecSessions == InitSessions /\ [][NextSessions]_vars

(***************************************************************************)
(* C36                                                                     *)
(***************************************************************************)
\* what a provider re-created from the sessions file reports for the chat
RecreatedSession(chat_id) == Get(_load_sessions(sessions_file).session_map, chat_id, NoSession)

RecreatedFolder(chat_id) == Get(_load_sessions(sessions_file).code_folders, chat_id, <<>>)

\* C36: a provider re-created from the sessions file reports the same
\* session id and the same code folder as the live provider for every chat,
\* a chat that has a code folder but no session id included
C36_SessionsRoundTrip ==
    \A chat_id \in SessionChats :
        /\ RecreatedSession(chat_id) = Get(_session_map, chat_id, NoSession)
        /\ RecreatedFolder(chat_id) = Get(_code_folders, chat_id, <<>>)

\* the same, for the chats that have a session id: these are the chats
\* _save_sessions writes
SessionsRoundTripOfKnownChats ==
    \A chat_id \in DOMAIN _session_map :
        /\ RecreatedSession(chat_id) = _session_map[chat_id]
        /\ RecreatedFolder(chat_id) = Get(_code_folders, chat_id, <<>>)

\* a legacy bare string loads as a session id with no code folder
LegacyLoadsWithoutFolder ==
    \A chat_id \in DOMAIN sessions_file :
        sessions_file[chat_id].legacy =>
            /\ RecreatedSession(chat_id) = sessions_file[chat_id].session_id
            /\ RecreatedFolder(chat_id) = <<>>

(***************************************************************************)
(* SpecRetry: one run for a chat whose earlier run was cancelled, of a     *)
(* subprocess that reports a too long prompt, with the recovery retry and  *)
(* a thread that calls cancel                                              *)
(***************************************************************************)
InitRetry ==
    /\ SvcQuiet
    /\ _rules = <<>>
    /\ RulesQuiet
    /\ BrokerQuiet
    /\ GateQuiet
    /\ _inject_queues = {}
    /\ _code_folders = <<>>
    /\ merged_q = <<>>
    /\ _session_map = [c \in {CHAT_ID} |-> "s1"]
    /\ sessions_file = SessionsDocument(_session_map, _code_folders)
    /\ _stdin_map = {}
    /\ _process_map = {}
    /\ _cancelled_prompts \in {<<>>, [c \in {CHAT_ID} |-> PromptOf(0)]}
    /\ run = RunIdle
    /\ proc = NoProc
    /\ out = <<>>
    /\ enq = <<>>
    /\ canc = CancelIdle
    /\ cancel_true = {}
    /\ runs = 0
    /\ used = NoUse

NextRetry ==
    \/ run_stream(CHAT_ID, MaxRuns)
    \/ \E outcome \in {"ok"} : Spawn(outcome)
    \/ \E line \in {L_too_long} : ReadStderr(line)
    \/ StdoutEof
    \/ StderrEof
    \/ ProcessExit
    \/ Consume
    \/ Teardown
    \/ \E compacted \in BOOLEAN : Compact(compacted)
    \/ cancel_terminate(CHAT_ID, MaxCancels)
    \/ cancel_put

SpecRetry == InitRetry /\ [][NextRetry]_vars

(***************************************************************************)
(* C37                                                                     *)
(***************************************************************************)
\* the prompt texts callers pass to run_stream
CallerPrompts == {PromptOf(n) : n \in 0..MaxRuns}

\* C37: the prompt remembered for a cancelled run is the caller's original
\* prompt of that run, with no cancellation-context prefix, also when the
\* cancel comes during the recovery retry
C37_RememberedIsOriginal ==
    \A chat_id \in DOMAIN _cancelled_prompts :
        _cancelled_prompts[chat_id] \in CallerPrompts

\* the same, for a cancel that comes while the run is not a recovery retry
RememberedIsOriginalOutsideRetry ==
    [][(Teardown /\ ~run.is_retry) =>
          \A chat_id \in DOMAIN _cancelled_prompts' :
              _cancelled_prompts'[chat_id] \in CallerPrompts]_vars

(***************************************************************************)
(* C38                                                                     *)
(***************************************************************************)
\* the answer handler stores its text for a request registered through the
\* request operation
AnswerOnGatedRequest ==
    /\ fe.pc = "answer"
    /\ fe'.pc = "idle"
    /\ fe.rid \in DOMAIN _pending
    /\ _pending[fe.rid].type = "tool"

\* C38: a gated action request is resolved to allow only by the request
\* operation's auto-allow or by decide with the value allow: no answer call
\* makes the wait of a gated request return allow
C38_AnswerNeverAllows ==
    [][AnswerOnGatedRequest =>
          (Get(_decisions', fe.rid, "deny") = "allow"
              => Get(_decisions, fe.rid, "deny") = "allow")]_vars

\* an answer to a request registered through question is what its wait returns
AnswerResolvesQuestion ==
    [][(fe.pc = "answer" /\ fe'.pc = "idle" /\ fe.rid \in DOMAIN _pending
            /\ _pending[fe.rid].type = "question")
          => Get(_decisions', fe.rid, "deny") = fe.value]_vars

(***************************************************************************)
(* SpecTrust: the request operation of the broker for file tools, for two  *)
(* chats of which one may have a registered folder, and the wait that      *)
(* returns a resolved request                                              *)
(***************************************************************************)
W_up == <<".", ".">>

\* /w/../x/a.py
W_w_up_x_py == W_w \o <<SL>> \o W_up \o W_x_py

\* /wx/a.py
W_wx_py == <<SL, "w", "x", SL, "a", ".", "p", "y">>

TrustPaths == {W_src_py, W_x_py, W_w_up_x_py, W_wx_py, W_w, <<>>}

TrustTools == FileTools \cup {"NotebookEdit"}

TrustChats == {CHAT_ID, "c2"}

\* POST /api/approval/request with a request_id that was not used before
T_Request(n, chat_id, tool, file_path) ==
    /\ RidOf(n) \notin DOMAIN _events
    /\ RidOf(n) \notin DOMAIN waitLog
    /\ \A m \in 1..(n - 1) : RidOf(m) \in DOMAIN _events \cup DOMAIN waitLog
    /\ api_approval_request(RidOf(n), chat_id, tool, ToolInput(<<>>, file_path, <<>>))
    /\ UNCHANGED <<waiters, fe, feCalls, feResp, waitLog, _inject_queues, _code_folders,
                   gateVars, rulesVars, svcVars, runVars>>

\* GET /api/approval/wait/<request_id> for a request whose event is set
T_Wait(request_id) ==
    /\ WaitKnown(request_id)
    /\ _events[request_id]
    /\ api_approval_wait_return(request_id)
    /\ UNCHANGED <<fe, feCalls, feResp, gateVars, rulesVars, svcVars, provVars, runVars>>

InitTrust ==
    /\ RunQuiet
    /\ SvcQuiet
    /\ _rules = WithIds(_DEFAULT_RULES)
    /\ RulesQuiet
    /\ BrokerQuiet
    /\ GateQuiet
    /\ _inject_queues = {CHAT_ID}
    /\ _code_folders \in {<<>>, [c \in {CHAT_ID} |-> W_w]}
    /\ merged_q = <<>>

NextTrust ==
    \/ \E n \in 1..MaxTrustRequests, chat_id \in TrustChats, tool \in TrustTools,
          file_path \in TrustPaths : T_Request(n, chat_id, tool, file_path)
    \/ \E n \in 1..MaxTrustRequests : T_Wait(RidOf(n))

SpecTrust == InitTrust /\ [][NextTrust]_vars

(***************************************************************************)
(* C39                                                                     *)
(***************************************************************************)
RECURSIVE Resolve(_, _)
\* the names of the file that open() reaches: '.' stays in place, '..' leaves
\* the directory reached so far
Resolve(names, reached) ==
    IF names = <<>> THEN reached
    ELSE IF Head(names) = <<".">> THEN Resolve(Tail(names), reached)
    ELSE IF Head(names) = W_up
         THEN Resolve(Tail(names),
                      IF reached = <<>> THEN reached
                      ELSE SubSeq(reached, 1, Len(reached) - 1))
         ELSE Resolve(Tail(names), Append(reached, Head(names)))

\* the file the executor will write lies inside the folder
WritesInside(file_path, folder) ==
    LET p == Resolve(Components(file_path, <<>>, <<>>), <<>>)
        f == Resolve(Components(folder, <<>>, <<>>), <<>>)
    IN  /\ folder # <<>>
        /\ Len(p) > Len(f)
        /\ SubSeq(p, 1, Len(f)) = f

\* the request operation resolved the request to allow, and no rule did
FolderTrusted(request_id) ==
    /\ request_id \in DOMAIN _pending
    /\ Get(_decisions, request_id, "none") = "allow"
    /\ ~RuleAutoAllow(_pending[request_id].tool, _pending[request_id].input)

\* C39: folder-scoped trust auto-allows a Write, Edit or MultiEdit request
\* only when the file the executor will write lies inside the registered
\* folder of the chat: not when the path leaves the folder through '..',
\* and never for a chat with no registered folder
C39_TrustOnlyInsideFolder ==
    \A request_id \in DOMAIN _pending :
        FolderTrusted(request_id) =>
            /\ _pending[request_id].tool \in FileTools
            /\ WritesInside(_pending[request_id].input.file_path,
                            get_code_folder(_pending[request_id].chat_id))

\* the same with the path taken as written: the prefix test of the request
\* operation
TrustOnlyUnderPrefix ==
    \A request_id \in DOMAIN _pending :
        FolderTrusted(request_id) =>
            /\ _pending[request_id].tool \in FileTools
            /\ get_code_folder(_pending[request_id].chat_id) # <<>>
            /\ Inside(_pending[request_id].input.file_path,
                      get_code_folder(_pending[request_id].chat_id))

(***************************************************************************)
(* SpecMonitor: a few stream_run calls in threads of their own, over one   *)
(* provider and one restart watchdog                                       *)
(***************************************************************************)
InitMonitor ==
    /\ _rules = <<>>
    /\ RulesQuiet
    /\ BrokerQuiet
    /\ GateQuiet
    /\ ProvQuiet
    /\ RunQuiet
    /\ stream = StreamIdle
    /\ repo = RepoIdle
    /\ overlap = OverlapIdle
    /\ fs = FsIdle
    /\ file_monitor = MonitorIdle

NextMonitor ==
    \/ \E i \in MonRuns, chat_id \in MonChats : M_Start(i, chat_id)
    \/ \E i \in MonRuns : M_Register(i)
    \/ \E i \in MonRuns, ending \in {"return", "raise"}, changed \in BOOLEAN :
          M_ProcessEnd(i, ending, changed)
    \/ \E i \in MonRuns : M_Completed(i)
    \/ \E i \in MonRuns : M_Commit(i)
    \/ \E i \in MonRuns : M_Finally(i)
    \/ M_DoRestart

SpecMonitor == InitMonitor /\ [][NextMonitor]_vars

(***************************************************************************)
(* C40                                                                     *)
(***************************************************************************)
\* the subprocess of the run exists
MonActive(i) == file_monitor.r[i].pc = "running"

RestartStarted == file_monitor'.restarts > file_monitor.restarts

\* the run's thread calls schedule_restart: after the loop when the files
\* changed, or from check_deferred_restart when a restart is pending
CallsSchedule(i) ==
    \/ file_monitor.r[i].pc = "completed" /\ file_monitor.r[i].changed
           /\ file_monitor'.r[i].pc # "completed"
    \/ file_monitor.r[i].pc = "finally" /\ file_monitor._restart_pending
           /\ file_monitor'.r[i].pc # "finally"

\* C40: a server restart is never started while an agent run is still
\* active, schedule_restart with active runs only marks the restart pending,
\* check_deferred_restart called when no run is active any more starts the
\* pending restart, and a restart is started at most once per server process
C40_RestartWatchdog ==
    [][/\ RestartStarted =>
            /\ \A i \in MonRuns : ~MonActive(i)
            /\ file_monitor.restarts = 0
       /\ \A i \in MonRuns :
            (CallsSchedule(i) /\ (\E j \in MonRuns : MonActive(j))
                    /\ ~file_monitor._restart_scheduled)
                => /\ file_monitor'._restart_pending
                   /\ file_monitor'.r[i].pc # "commit"
       /\ \A i \in MonRuns :
            (file_monitor.r[i].pc = "finally" /\ file_monitor'.r[i].pc # "finally"
                    /\ file_monitor._restart_pending
                    /\ ~file_monitor._restart_scheduled
                    /\ \A j \in MonRuns : ~MonActive(j))
                => file_monitor'.r[i].pc = "commit"]_vars

\* what the watchdog keeps to: it passes the test of the count only when the
\* process map is empty, and with a non-empty map it marks the restart pending
WatchdogCountsProcessMap ==
    [][\A i \in MonRuns :
          /\ (file_monitor'.r[i].pc = "commit" /\ file_monitor.r[i].pc # "commit")
                => /\ _process_map = {}
                   /\ ~file_monitor._restart_scheduled
          /\ (CallsSchedule(i) /\ _process_map # {} /\ ~file_monitor._restart_scheduled)
                => /\ file_monitor'._restart_pending
                   /\ file_monitor'.r[i].pc # "commit"
          /\ (file_monitor.r[i].pc = "finally" /\ file_monitor'.r[i].pc # "finally"
                    /\ file_monitor._restart_pending
                    /\ ~file_monitor._restart_scheduled
                    /\ \A j \in MonRuns : ~MonActive(j))
                => file_monitor'.r[i].pc = "commit"]_vars

====
